---- MODULE Spec2Model ----
(***************************************************************************)
(* A model of the evidencing agent: the similarity index and its backends, *)
(* the feedback ranker, the confidence scorer and the staged pipeline.     *)
(*                                                                         *)
(* Numbers.  Similarity scores and confidence terms are exact rationals,   *)
(* held as integers in units of 1/One.  One is a multiple of 25 and of     *)
(* every n in 1..10, so a cosine of the model's vectors and a mean of up   *)
(* to ten of them are integers.  Floating-point rounding is not modelled.  *)
(***************************************************************************)
EXTENDS Integers, Sequences, FiniteSets, TLC

VARIABLES
    \* The similarity index (InMemoryVectorStore).
    documents,      \* self.documents, in dict order
    insertLog,      \* history: the ids held, in the order they entered the index
    touchLog,       \* history: the ids held, in the order of their latest add
    lastSearch,     \* the last search: its arguments and what it returned
    lastFind,       \* the last find_most_similar: its arguments and result
    \* The three backends of the index, side by side.
    stores,         \* the documents each backend holds
    lastAdd,        \* the last add_documents: backend, document, store before and after
    \* The feedback ranker and the confidence scorer, as functions.
    ranking,        \* the ranker's arguments and, once applied, what it returned
    scoring,        \* the scorer's input state and, once applied, its outcome
    \* The pipeline (EvidencingAgent).
    env,            \* the world of the run: index, databases, services that are down
    state,          \* the AgentState of the run
    pc,             \* the node to execute next, or where the call ended
    trace,          \* history: the nodes executed, in order
    entry,          \* history: the AgentState on entry to the node executed last
    checkpoints,    \* the checkpointer: the checkpoints saved, by thread
    lastRead,       \* the last read of the checkpointer and what it returned
    \* The feedback collector (FeedbackCollector).
    collector,      \* the feedback table, the collector's index, the last submission
    \* A search of the index while other runs write to it.
    scan,           \* the search under way: its iterator, what it has read, its outcome
    \* RAGService.chunk_text.
    chunking        \* the call under way: its arguments, its locals, what it returned

indexVars == <<documents, insertLog, touchLog, lastSearch, lastFind>>
backendVars == <<stores, lastAdd>>
functionVars == <<ranking, scoring>>
runVars == <<env, state, pc, trace, entry, checkpoints, lastRead>>
serviceVars == <<collector, scan, chunking>>
vars == <<indexVars, backendVars, functionVars, runVars, serviceVars>>

One == 2520 * 50

\* None where an object is expected, and None where a string is.
None == [none |-> TRUE]
NoneStr == "None"

(***************************************************************************)
(* Bounds of the model.                                                    *)
(***************************************************************************)
\* The largest top_k a search is asked for.
MaxTopK == 2

(***************************************************************************)
(* Vectors: integer embeddings whose norms are integers.                   *)
(***************************************************************************)
Abs(x) == IF x < 0 THEN -x ELSE x

RECURSIVE SumSeq(_)
SumSeq(s) == IF s = <<>> THEN 0 ELSE Head(s) + SumSeq(Tail(s))

\* np.dot of two vectors of the same length (of any other pair it raises).
Dot(v1, v2) == SumSeq([i \in 1..Len(v1) |-> v1[i] * v2[i]])

\* np.linalg.norm, exact on Vecs and on the empty vector.
Norm(v) == CHOOSE r \in 0..SumSeq([i \in 1..Len(v) |-> Abs(v[i])]) : r * r = Dot(v, v)

\* InMemoryVectorStore._cosine_similarity and EmbeddingService.cosine_similarity:
\* 0.0 when either norm is 0, else dot / (norm1 * norm2).
CosineSimilarity(v1, v2) ==
    IF Norm(v1) = 0 \/ Norm(v2) = 0
    THEN 0
    ELSE (Dot(v1, v2) * One) \div (Norm(v1) * Norm(v2))

(***************************************************************************)
(* Python list operations.                                                 *)
(***************************************************************************)
Min(a, b) == IF a < b THEN a ELSE b
Max(a, b) == IF a > b THEN a ELSE b

\* seq[:k] of Python, k of either sign.
PySlice(seq, k) ==
    IF k >= 0
    THEN SubSeq(seq, 1, Min(k, Len(seq)))
    ELSE SubSeq(seq, 1, Max(Len(seq) + k, 0))

\* The mutant of the sort order: elements of equal key come out reversed.
StableDescOrderTiesReversed(keys) ==
    LET n == Len(keys)
        Before(i) == {j \in 1..n : keys[j] > keys[i]
                                   \/ (keys[j] = keys[i] /\ j > i)}
    IN  [p \in 1..n |-> CHOOSE i \in 1..n : Cardinality(Before(i)) = p - 1]

\* list.sort(key=..., reverse=True) as the permutation it applies: position p
\* of the sorted list holds element StableDescOrder(keys)[p] of the unsorted
\* one.  Descending by key and stable: elements of equal key keep their order.
StableDescOrder(keys) ==
    LET n == Len(keys)
        Before(i) == {j \in 1..n : keys[j] > keys[i]
                                   \/ (keys[j] = keys[i] /\ j < i)}
    IN  [p \in 1..n |-> CHOOSE i \in 1..n : Cardinality(Before(i)) = p - 1]

\* The element of a singleton.  TheOne({e(x) : x \in {v}}) is e of the local
\* variable x that holds the value v, computed once.
TheOne(S) == CHOOSE x \in S : TRUE

\* seq rearranged by the permutation perm.
Permute(seq, perm) == [p \in 1..Len(perm) |-> seq[perm[p]]]

SeqToSet(s) == {s[i] : i \in 1..Len(s)}

NonIncreasing(scores) ==
    \A i, j \in 1..Len(scores) : i < j => scores[i] >= scores[j]

(***************************************************************************)
(* InMemoryVectorStore.  self.documents is a Python dict: it keeps its     *)
(* keys in the order of their insertion, and assigning to a key it holds   *)
(* replaces the value in place.  It is modelled as a sequence of documents *)
(* [id, embedding, metadata] with pairwise distinct ids.                   *)
(***************************************************************************)
\* An Optional[float]: not given (None), or given with value v.
NoThreshold == [given |-> FALSE, v |-> 0]
Threshold(x) == [given |-> TRUE, v |-> x]

\* A metadata filter that is None or the empty dict.
NoFilter == [k \in {} |-> ""]

IdsOf(docs) == {docs[i].id : i \in 1..Len(docs)}

IndexOfId(docs, id) == CHOOSE i \in 1..Len(docs) : docs[i].id = id

\* self.documents[doc.id] = doc
PutDocument(docs, doc) ==
    IF doc.id \in IdsOf(docs)
    THEN [docs EXCEPT ![IndexOfId(docs, doc.id)] = doc]
    ELSE Append(docs, doc)

\* InMemoryVectorStore.add_documents
RECURSIVE AddDocuments(_, _)
AddDocuments(docs, newDocs) ==
    IF newDocs = <<>>
    THEN docs
    ELSE AddDocuments(PutDocument(docs, Head(newDocs)), Tail(newDocs))

\* InMemoryVectorStore._matches_filter: every key of the filter is a key of
\* the metadata with the same value.
MatchesFilter(metadata, filter) ==
    \A k \in DOMAIN filter : k \in DOMAIN metadata /\ metadata[k] = filter[k]

\* "if score_threshold and score < score_threshold: continue".  The first
\* conjunct is Python's truth value of an Optional[float]: None and 0.0 are
\* both false.
BelowThreshold(score, threshold) ==
    /\ threshold.given
    /\ threshold.v # 0
    /\ score < threshold.v

\* The candidates of a search with their scores, in the order of documents.
Similarities(docs, query, filter, threshold) ==
    LET candidates == SelectSeq(docs, LAMBDA d :
                          ~(DOMAIN filter # {} /\ ~MatchesFilter(d.metadata, filter)))
        scored == [i \in 1..Len(candidates) |->
                      [id |-> candidates[i].id,
                       score |-> CosineSimilarity(query, candidates[i].embedding),
                       metadata |-> candidates[i].metadata]]
    IN  SelectSeq(scored, LAMBDA r : ~BelowThreshold(r.score, threshold))

ScoresOf(results) == [i \in 1..Len(results) |-> results[i].score]

\* The mutant of search: the sorted list is returned whole.
SearchNoTopK(docs, query, top_k, filter, threshold) ==
    TheOne({Permute(sims, StableDescOrder(ScoresOf(sims)))
            : sims \in {Similarities(docs, query, filter, threshold)}})

\* InMemoryVectorStore.search
Search(docs, query, top_k, filter, threshold) ==
    TheOne({PySlice(Permute(sims, StableDescOrder(ScoresOf(sims))), top_k)
            : sims \in {Similarities(docs, query, filter, threshold)}})

\* InMemoryVectorStore.delete_by_id
DeleteById(docs, id) == SelectSeq(docs, LAMBDA d : d.id # id)

\* InMemoryVectorStore.delete_by_metadata
DeleteByMetadata(docs, filter) ==
    SelectSeq(docs, LAMBDA d : ~MatchesFilter(d.metadata, filter))

\* InMemoryVectorStore.count
Count(docs, filter) ==
    IF DOMAIN filter = {}
    THEN Len(docs)
    ELSE Cardinality({i \in 1..Len(docs) : MatchesFilter(docs[i].metadata, filter)})

(***************************************************************************)
(* EmbeddingService.find_most_similar: (index, similarity) pairs of the    *)
(* candidates at or above the threshold, highest first, at most top_k.     *)
(* Indices are Python's, from 0.                                           *)
(***************************************************************************)
\* Whether cosine_similarity raises on some candidate (np.dot on two shapes).
FindRaises(query, candidates) ==
    \E i \in 1..Len(candidates) : Len(candidates[i]) # Len(query)

FindMostSimilar(query, candidates, top_k, threshold) ==
    LET all == [i \in 1..Len(candidates) |->
                   [idx |-> i - 1, score |-> CosineSimilarity(query, candidates[i])]]
    IN  TheOne({PySlice(Permute(sims, StableDescOrder(ScoresOf(sims))), top_k)
                : sims \in {SelectSeq(all, LAMBDA r : r.score >= threshold)}})

(***************************************************************************)
(* The other two backends.  A backend's add_documents is given as the      *)
(* store it leaves behind and whether the call raised.                     *)
(***************************************************************************)
InMemoryAddDocuments(docs, newDocs) ==
    [docs |-> AddDocuments(docs, newDocs), raised |-> FALSE]

\* What collection.add of Chroma does with an id the collection holds
\* already: it raises, or (later releases) it leaves the stored record as it
\* is.  Which of the two depends on the installed release.
ChromaOnDuplicate == {"raise", "ignore"}

\* ChromaVectorStore.add_documents: collection.add, which is not
\* collection.upsert: nothing the collection holds is replaced.
ChromaAddDocuments(docs, newDocs, onDuplicate) ==
    IF newDocs = <<>>
    THEN [docs |-> docs, raised |-> FALSE]
    ELSE IF onDuplicate = "raise" /\ \E i \in 1..Len(newDocs) : newDocs[i].id \in IdsOf(docs)
    THEN [docs |-> docs, raised |-> TRUE]
    ELSE [docs |-> docs \o SelectSeq(newDocs, LAMBDA d : d.id \notin IdsOf(docs)),
          raised |-> FALSE]

\* PineconeVectorStore.add_documents: index.upsert, which replaces by id.
PineconeAddDocuments(docs, newDocs) ==
    [docs |-> AddDocuments(docs, newDocs), raised |-> FALSE]

(***************************************************************************)
(* Settings (config.py) that the ranker and the scorer read.               *)
(***************************************************************************)
SimilarityThreshold == (7 * One) \div 10
FrequencyBoostFactor == (15 * One) \div 100
RecencyWeight == One \div 10
DaysPerYear == 365

(***************************************************************************)
(* The feedback ranker of the pipeline (retrieve_feedback_node).  A        *)
(* feedback record is [id, commitment_id, agent_decision, rating,          *)
(* query_embedding, days_old].  Final scores are in units of               *)
(* 1/(One * DaysPerYear), so that the recency boost is exact.              *)
(***************************************************************************)
ClusterKey(f) == <<f.commitment_id, f.agent_decision>>

\* len(clusters[key]) for the key of element i.
ClusterSize(keys, i) == Cardinality({j \in 1..Len(keys) : keys[j] = keys[i]})

\* The order of "for cluster_items in clusters.items(): for item in
\* cluster_items": clusters in the order their keys first appeared, the
\* items of a cluster in their order.  As a permutation of 1..Len(keys).
ClusterOrder(keys) ==
    LET n == Len(keys)
        First(i) == CHOOSE j \in 1..i : keys[j] = keys[i]
                        /\ \A h \in 1..(j - 1) : keys[h] # keys[i]
        Before(i) == {j \in 1..n : First(j) < First(i)
                                   \/ (First(j) = First(i) /\ j < i)}
    IN  [p \in 1..n |-> CHOOSE i \in 1..n : Cardinality(Before(i)) = p - 1]

RecencyBoostUnfloored(days_old) == RecencyWeight * (DaysPerYear - days_old)

\* max(0, recency_weight * (1 - days_old / 365)), times DaysPerYear
RecencyBoost(days_old) == Max(0, RecencyWeight * (DaysPerYear - days_old))

\* base_score + frequency_boost + recency_boost, times DaysPerYear
FinalScore(base_score, cluster_size, days_old) ==
    base_score * DaysPerYear
        + (cluster_size - 1) * FrequencyBoostFactor * DaysPerYear
        + RecencyBoost(days_old)

NoRanking == [raised |-> FALSE, candidates |-> <<>>, top |-> <<>>, clusters |-> 0]

\* retrieve_feedback_node, lines 43-100: the candidates (similar_feedback,
\* with the scores given to them) and the sorted and cut list (top_feedback).
RankFeedback(query_embedding, all_feedback, feedback_top_k, threshold) ==
    LET embeddings == [i \in 1..Len(all_feedback) |-> all_feedback[i].query_embedding]
        Ranked(similar_indices) ==
            LET similar == [i \in 1..Len(similar_indices) |->
                               [feedback |-> all_feedback[similar_indices[i].idx + 1],
                                base_score |-> similar_indices[i].score]]
                keys == [i \in 1..Len(similar) |-> ClusterKey(similar[i].feedback)]
                weighted == [i \in 1..Len(similar) |->
                                [feedback |-> similar[i].feedback,
                                 base_score |-> similar[i].base_score,
                                 final_score |-> FinalScore(similar[i].base_score,
                                                    ClusterSize(keys, i),
                                                    similar[i].feedback.days_old),
                                 cluster_size |-> ClusterSize(keys, i)]]
            IN  TheOne({[raised |-> FALSE,
                         candidates |-> weighted,
                         top |-> PySlice(Permute(grouped,
                                     StableDescOrder([i \in 1..Len(grouped) |->
                                                         grouped[i].final_score])),
                                     feedback_top_k),
                         clusters |-> Cardinality({keys[i] : i \in 1..Len(keys)})]
                        : grouped \in {Permute(weighted, ClusterOrder(keys))}})
    IN  IF all_feedback = <<>>
        THEN NoRanking
        ELSE IF FindRaises(query_embedding, embeddings)
        THEN [NoRanking EXCEPT !.raised = TRUE]
        ELSE TheOne({Ranked(similar_indices) : similar_indices \in
                        {FindMostSimilar(query_embedding, embeddings,
                                         feedback_top_k * 2, threshold)}})

(***************************************************************************)
(* The feedback ranker of FeedbackProcessor (retrieve_similar_feedback):   *)
(* it searches the index, resolves the hits in the database and sorts by   *)
(* similarity * frequency_weight.  The weight is held in hundredths, the   *)
(* final score in units of 1/(100 * One).                                  *)
(***************************************************************************)
\* 1.0 + (cluster_size - 1) * frequency_boost_factor, in hundredths
FrequencyWeight(cluster_size) ==
    ((One + (cluster_size - 1) * FrequencyBoostFactor) * 100) \div One

RetrieveSimilarFeedback(docs, all_feedback, query_embedding, commitment_id, top_k, threshold) ==
    LET filter_metadata == IF commitment_id = NoneStr \/ commitment_id = ""
                           THEN [type |-> "feedback"]
                           ELSE [type |-> "feedback", commitment_id |-> commitment_id]
        results == Search(docs, query_embedding, top_k * 2, filter_metadata,
                          Threshold(threshold))
        Held(id) == \E i \in 1..Len(all_feedback) : all_feedback[i].id = id
        Fb(id) == all_feedback[CHOOSE i \in 1..Len(all_feedback) : all_feedback[i].id = id]
        resolved == SelectSeq(results, LAMBDA r : Held(r.id))
        similar == [i \in 1..Len(resolved) |->
                       [feedback |-> Fb(resolved[i].id),
                        base_score |-> resolved[i].score]]
        keys == [i \in 1..Len(similar) |-> ClusterKey(similar[i].feedback)]
        weighted == [i \in 1..Len(similar) |->
                        [feedback |-> similar[i].feedback,
                         base_score |-> similar[i].base_score,
                         final_score |-> similar[i].base_score
                                             * FrequencyWeight(ClusterSize(keys, i)),
                         cluster_size |-> ClusterSize(keys, i)]]
        sorted == Permute(weighted,
                      StableDescOrder([i \in 1..Len(weighted) |-> weighted[i].final_score]))
    IN  [raised |-> FALSE,
         candidates |-> weighted,
         top |-> PySlice(sorted, top_k),
         clusters |-> Cardinality({keys[i] : i \in 1..Len(keys)})]

(***************************************************************************)
(* The confidence scorer (assess_confidence_node).  Confidence terms and   *)
(* the score are in units of 1/(10 * One): a similarity times 0.5 is the   *)
(* similarity's integer times 5.                                           *)
(***************************************************************************)
ConfidenceHighThreshold == (85 * One) \div 10
ConfidenceMediumThreshold == 7 * One
ConfidenceLowThreshold == 5 * One

\* The mutant of factor 1: the similarity times 0.5, not capped
RagScoreUncapped(rag_context) ==
    IF rag_context # None /\ rag_context.chunks_retrieved > 0
    THEN rag_context.avg_similarity * 5
    ELSE 0

\* Factor 1: min(0.4, avg_similarity * 0.5) when chunks were retrieved
RagScore(rag_context) ==
    IF rag_context # None /\ rag_context.chunks_retrieved > 0
    THEN Min(4 * One, rag_context.avg_similarity * 5)
    ELSE 0

\* Factor 2: avg_similarity * 0.2 plus 0.15, 0.1 or 0.05 by the count
FeedbackScore(feedback_context) ==
    IF feedback_context # None /\ feedback_context.retrieved_count > 0
    THEN feedback_context.avg_similarity * 2
             + (IF feedback_context.retrieved_count >= 3 THEN (15 * One) \div 10
                ELSE IF feedback_context.retrieved_count >= 2 THEN One
                ELSE One \div 2)
    ELSE 0

\* The mutant of factor 3: halved when half of the ratings or more are "down"
AgreementScoreHalfDown(similar_feedback) ==
    LET n == Len(similar_feedback)
        decisions == {similar_feedback[i].agent_decision : i \in 1..n}
        downs == Cardinality({i \in 1..n : similar_feedback[i].rating = "down"})
        base == IF Cardinality(decisions) = 1 THEN 2 * One
                ELSE IF Cardinality(decisions) = 2 THEN One
                ELSE 0
    IN  IF n = 0 THEN 0
        ELSE IF 2 * downs >= n THEN base \div 2
        ELSE base

\* Factor 3: 0.2, 0.1 or 0.0 by the number of distinct decisions, halved
\* when more than half of the ratings are "down"
AgreementScore(similar_feedback) ==
    LET n == Len(similar_feedback)
        decisions == {similar_feedback[i].agent_decision : i \in 1..n}
        downs == Cardinality({i \in 1..n : similar_feedback[i].rating = "down"})
        base == IF Cardinality(decisions) = 1 THEN 2 * One
                ELSE IF Cardinality(decisions) = 2 THEN One
                ELSE 0
    IN  IF n = 0 THEN 0
        ELSE IF 2 * downs > n THEN base \div 2
        ELSE base

\* The mutant of the level: a score equal to a threshold is below it.
ConfidenceLevelStrict(score) ==
    IF score > ConfidenceHighThreshold THEN "high"
    ELSE IF score > ConfidenceMediumThreshold THEN "medium"
    ELSE IF score > ConfidenceLowThreshold THEN "low"
    ELSE "insufficient"

\* The level of a score by settings.confidence_{high,medium,low}_threshold
ConfidenceLevel(score) ==
    IF score >= ConfidenceHighThreshold THEN "high"
    ELSE IF score >= ConfidenceMediumThreshold THEN "medium"
    ELSE IF score >= ConfidenceLowThreshold THEN "low"
    ELSE "insufficient"

\* The body of assess_confidence_node: the three terms, their sum, the level
\* and whether ConfidenceAssessment (score: ge=0.0, le=1.0) rejected the sum.
AssessConfidence(rag_context, feedback_context, similar_feedback) ==
    LET rag == RagScore(rag_context)
        feedback == FeedbackScore(feedback_context)
        agreement == AgreementScore(similar_feedback)
        score == rag + feedback + agreement
    IN  [raised |-> score < 0 \/ score > 10 * One,
         score |-> score,
         level |-> ConfidenceLevel(score),
         rag |-> rag,
         feedback |-> feedback,
         agreement |-> agreement]

(***************************************************************************)
(* AssetURI.from_uri.  A URI is a sequence of tokens: the scheme           *)
(* "asset://", the dot ".", and letters.                                   *)
(***************************************************************************)
Scheme == "asset://"

\* uri.replace("asset://", ""): every occurrence goes.
ReplaceScheme(uri) == SelectSeq(uri, LAMBDA t : t # Scheme)

\* path.split("."): the parts between the dots, empty parts included.
RECURSIVE SplitDots(_)
SplitDots(path) ==
    IF path = <<>>
    THEN << <<>> >>
    ELSE LET rest == SplitDots(Tail(path))
         IN  IF Head(path) = "."
             THEN << <<>> >> \o rest
             ELSE << <<Head(path)>> \o rest[1] >> \o Tail(rest)

FromUri(uri) ==
    LET parts == SplitDots(ReplaceScheme(uri))
    IN  IF ~(Len(uri) >= 1 /\ uri[1] = Scheme) \/ Len(parts) # 3
        THEN [raised |-> TRUE, asset |-> None]
        ELSE [raised |-> FALSE,
              asset |-> [raw_uri |-> uri, asset_type |-> parts[1],
                         asset_descriptor |-> parts[2], asset_domain |-> parts[3]]]

(***************************************************************************)
(* The pipeline.  The world of a run is a record e: the index it searches  *)
(* (e.index), the commitments and the feedback the database holds          *)
(* (e.commitments, e.all_feedback), the decisions saved (e.decisions), the *)
(* vector the embedding service returns (e.embedding), the service that is *)
(* down (e.down) and what the model answers (e.llm).  A node is given as   *)
(* the AgentState it returns.                                              *)
(***************************************************************************)
EmptyDict == [k \in {} |-> ""]

\* d[key] = value on a dict
Put(d, key, value) == (key :> value) @@ d

\* Python's truth value of an Optional[str]
Truthy(str) == str # NoneStr /\ str # ""

\* AgentState(asset_uri=..., commitment_id=..., commitment_query=...,
\* session_id=...): every other field at its default.
InitialState(asset_uri, commitment_id, commitment_query, session_id) ==
    [asset_uri |-> asset_uri, commitment_id |-> commitment_id,
     commitment_query |-> commitment_query, commitment_name |-> None,
     session_id |-> session_id, asset |-> None, commitment |-> None,
     related_commitments |-> <<>>, rag_chunks |-> <<>>, rag_context |-> None,
     similar_feedback |-> <<>>, feedback_context |-> None,
     similar_decisions |-> <<>>, tool_results |-> {}, query_embedding |-> <<>>,
     confidence |-> None, response |-> None, decision |-> None,
     telemetry_data |-> EmptyDict, errors |-> <<>>]

\* An except block that records its message in a list of its own.
FailAfresh(st, key, message) ==
    [st EXCEPT !.errors = <<message>>, !.telemetry_data = Put(@, key, "error")]

\* The except block of a node: one message more, and the error under the
\* node's telemetry key.
Fail(st, key, message) ==
    [st EXCEPT !.errors = Append(@, message), !.telemetry_data = Put(@, key, "error")]

\* The telemetry a node writes when its body went through.
Tracked(st, key) == [st EXCEPT !.telemetry_data = Put(@, key, "ok")]

ParseAssetNode(st) ==
    LET parsed == FromUri(st.asset_uri)
    IN  IF parsed.raised
        THEN Fail(st, "parse_asset", "Asset parsing error")
        ELSE Tracked([st EXCEPT !.asset = parsed.asset], "parse_asset")

\* The mutant of the lookup: a reference that resolves neither way yields
\* a policy all the same.
FindCommitmentOrAny(e, key) ==
    IF \E c \in e.commitments : c.id = key
    THEN CHOOSE c \in e.commitments : c.id = key
    ELSE IF \E c \in e.commitments : c.name = key
    THEN CHOOSE c \in e.commitments : c.name = key
    ELSE CHOOSE c \in e.commitments : TRUE

\* db.get_commitment(id), then db.get_commitment_by_name(id)
FindCommitment(e, key) ==
    IF \E c \in e.commitments : c.id = key
    THEN CHOOSE c \in e.commitments : c.id = key
    ELSE IF \E c \in e.commitments : c.name = key
    THEN CHOOSE c \in e.commitments : c.name = key
    ELSE None

\* The hits of search_commitments: the summaries at or above the threshold,
\* the first top_k of at most 2 * top_k.
SummaryHits(e, top_k, score_threshold) ==
    PySlice(Search(e.index, e.embedding, top_k * 2,
                   [type |-> "commitment_summary"], Threshold(score_threshold)),
            top_k)

\* The mutant of search_commitments: every candidate is resolved, not the
\* first top_k.
SearchCommitmentsAllCandidates(e, top_k, score_threshold) ==
    LET held == SelectSeq(Search(e.index, e.embedding, top_k * 2,
                                 [type |-> "commitment_summary"],
                                 Threshold(score_threshold)),
                          LAMBDA r : \E c \in e.commitments : c.id = r.metadata.commitment_id)
    IN  [i \in 1..Len(held) |->
            CHOOSE c \in e.commitments : c.id = held[i].metadata.commitment_id]

\* CommitmentSearchService.search_commitments: the hits the database resolves
SearchCommitments(e, top_k, score_threshold) ==
    LET held == SelectSeq(SummaryHits(e, top_k, score_threshold), LAMBDA r :
                    \E c \in e.commitments : c.id = r.metadata.commitment_id)
    IN  [i \in 1..Len(held) |->
            CHOOSE c \in e.commitments : c.id = held[i].metadata.commitment_id]

RagTopK == 3
MaxChunksTotal == 10
DiscoveryTopK == 3
DiscoveryThreshold == (6 * One) \div 10

\* RAGService.retrieve_relevant_chunks: a search for settings.rag_top_k
\* chunks of the commitment with score_threshold=0.0
RetrieveRelevantChunks(e, query_embedding, commitment_id) ==
    Search(e.index, query_embedding, e.rag_top_k,
           [type |-> "commitment_chunk", commitment_id |-> commitment_id],
           Threshold(0))

RECURSIVE ChunksOfAll(_, _, _)
ChunksOfAll(e, query_embedding, commitments) ==
    IF commitments = <<>>
    THEN <<>>
    ELSE RetrieveRelevantChunks(e, query_embedding, Head(commitments).id)
             \o ChunksOfAll(e, query_embedding, Tail(commitments))

\* max(scores) of a list that is not empty
RECURSIVE MaxOf(_)
MaxOf(scores) ==
    IF Len(scores) = 1 THEN scores[1] ELSE Max(Head(scores), MaxOf(Tail(scores)))

\* RAGContext(chunks_retrieved=..., chunk_ids=..., avg_similarity=...,
\* top_similarity=...) of the chunks kept
RagContextOf(top) ==
    [chunks_retrieved |-> Len(top),
     chunk_ids |-> [i \in 1..Len(top) |-> top[i].id],
     avg_similarity |-> IF top = <<>> THEN 0 ELSE SumSeq(ScoresOf(top)) \div Len(top),
     top_similarity |-> IF top = <<>> THEN 0 ELSE MaxOf(ScoresOf(top))]

\* The mutant of the merge: the chunks cut without sorting them.
TopChunksUnsorted(found) == PySlice(found, Min(Len(found), MaxChunksTotal))

\* The chunks of all commitments, sorted by score (stable, descending) and
\* cut to the first min(len, 10).
TopChunks(found) ==
    PySlice(Permute(found, StableDescOrder(ScoresOf(found))),
            Min(Len(found), MaxChunksTotal))

\* retrieve_rag_node from "Build query text" on: the embedding, the chunks
\* of every commitment, merged, sorted and cut, and the RAGContext.
RetrieveChunks(st, e, commitments) ==
    LET embedded == IF st.query_embedding = <<>>
                    THEN [st EXCEPT !.query_embedding = e.embedding]
                    ELSE st
    IN  IF st.query_embedding = <<>> /\ e.down = "embedding"
        THEN Fail(st, "rag_retrieval", "RAG retrieval error")
        ELSE IF e.down = "vector_store"
        THEN Fail(embedded, "rag_retrieval", "RAG retrieval error")
        ELSE TheOne({Tracked([embedded EXCEPT
                         !.rag_chunks = [i \in 1..Len(top) |-> top[i].id],
                         !.rag_context = RagContextOf(top)],
                         "rag_retrieval")
                     : top \in {TheOne({TopChunks(found) : found \in
                           {ChunksOfAll(e, embedded.query_embedding, commitments)}})}})

\* The name of a commitment as commitment_name holds it: the name alone
\* (related = -1) or "name (+ n related)".
RetrieveRagNode(st, e) ==
    LET commitment == FindCommitment(e, st.commitment_id)
        hits == SearchCommitments(e, DiscoveryTopK, DiscoveryThreshold)
    IN  IF Truthy(st.commitment_id)
        THEN IF e.down = "db"
             THEN Fail(st, "rag_retrieval", "RAG retrieval error")
             ELSE IF commitment = None
             THEN [st EXCEPT !.errors = Append(@, "Commitment not found")]
             ELSE RetrieveChunks(
                      [st EXCEPT !.commitment = commitment,
                                 !.commitment_name = [name |-> commitment.name, related |-> -1]],
                      e, <<commitment>>)
        ELSE IF Truthy(st.commitment_query)
        THEN IF \/ e.down \in {"embedding", "vector_store"}
                \/ (e.down = "db"
                        /\ SummaryHits(e, DiscoveryTopK, DiscoveryThreshold) # <<>>)
             THEN Fail(st, "rag_retrieval", "RAG retrieval error")
             ELSE TheOne({
                      IF found = <<>>
                      THEN [st EXCEPT !.errors = Append(@, "No commitments found matching")]
                      ELSE RetrieveChunks(
                               [st EXCEPT !.commitment = found[1],
                                          !.related_commitments = Tail(found),
                                          !.commitment_name = [name |-> found[1].name,
                                                               related |-> Len(found) - 1]],
                               e, found)
                      : found \in {hits}})
        ELSE [st EXCEPT !.errors = Append(@, "Must provide either commitment_id or commitment_query")]

FeedbackTopK == 5

\* retrieve_decisions_node: the decisions of the index similar to the query
RetrieveDecisionsNode(st, e) ==
    TheOne({
        IF st.query_embedding = <<>> \/ e.down = "vector_store"
           \/ (e.down = "db" /\ results # <<>>)
        THEN Fail(st, "decision_retrieval", "Decision retrieval error")
        ELSE Tracked([st EXCEPT !.similar_decisions =
                         [i \in 1..Len(results) |->
                             [decision_id |-> results[i].id,
                              similarity |-> results[i].score]]],
                     "decision_retrieval")
        : results \in {Search(e.index, st.query_embedding, FeedbackTopK * 2,
                              [type |-> "decision", commitment_id |-> st.commitment_id],
                              Threshold(SimilarityThreshold))}})

\* retrieve_feedback_node.  similar_feedback receives the DecisionFeedback
\* objects themselves.  A query embedding left at its default, [], makes
\* np.dot raise on every candidate that is not empty as well.
RetrieveFeedbackNode(st, e) ==
    LET all_feedback == e.all_feedback
        Context(retrieved, avg, clusters) ==
            [total_feedback_count |-> Len(all_feedback), retrieved_count |-> retrieved,
             avg_similarity |-> avg, frequency_clusters |-> clusters]
        Retrieved(ranked) ==
            LET top == ranked.top
            IN  IF e.down = "db" \/ ranked.raised
                THEN Fail(st, "feedback_retrieval", "Feedback retrieval error")
                ELSE IF all_feedback = <<>> \/ ranked.candidates = <<>>
                THEN Tracked([st EXCEPT !.feedback_context = Context(0, 0, 0)],
                             "feedback_retrieval")
                ELSE Tracked([st EXCEPT
                         !.similar_feedback = [i \in 1..Len(top) |-> top[i].feedback],
                         !.feedback_context =
                             Context(Len(top),
                                     IF top = <<>> THEN 0
                                     ELSE SumSeq([i \in 1..Len(top) |-> top[i].base_score])
                                              \div Len(top),
                                     ranked.clusters)],
                         "feedback_retrieval")
    IN  TheOne({Retrieved(ranked) : ranked \in
                   {RankFeedback(st.query_embedding, all_feedback, FeedbackTopK,
                                 SimilarityThreshold)}})

\* tool_research_node: the placeholder results, when the asset was parsed
ToolResearchNode(st) ==
    Tracked([st EXCEPT !.tool_results =
                IF st.asset # None
                THEN {"asset_parsing", "lineage", "metadata", "data_classification"}
                ELSE {}],
            "tool_research")

AssessConfidenceNode(st) ==
    TheOne({
        IF assessed.raised
        THEN Fail(st, "confidence_assessment", "Confidence assessment error")
        ELSE Tracked([st EXCEPT !.confidence =
                         [level |-> assessed.level, score |-> assessed.score]],
                     "confidence_assessment")
        : assessed \in {AssessConfidence(st.rag_context, st.feedback_context,
                                         st.similar_feedback)}})

\* build_prompt_node.  Line 261 calls f.get('human_reason') on every item of
\* similar_feedback, which holds DecisionFeedback objects: they have no get.
BuildPromptNode(st) ==
    IF st.similar_feedback # <<>>
    THEN Fail(st, "prompt_construction", "Prompt building error")
    ELSE [st EXCEPT !.telemetry_data =
             Put(Put(@, "prompt_construction", "ok"), "prompts", "ok")]

\* The mutant of llm_call_node: the model is called whether or not the
\* prompts were built.
LlmCallNodeWithoutPrompts(st, e) ==
    IF e.down = "llm"
    THEN Fail(st, "llm_call", "LLM call error")
    ELSE IF e.llm = "not_json"
    THEN Fail(st, "llm_call", "LLM response is not valid JSON")
    ELSE [st EXCEPT !.response = [decision |-> e.llm, confidence_level |-> "medium"],
                    !.telemetry_data = Put(@, "llm_call", e.llm)]

\* llm_call_node
LlmCallNode(st, e) ==
    IF "prompts" \notin DOMAIN st.telemetry_data \/ e.down = "llm"
    THEN Fail(st, "llm_call", "LLM call error")
    ELSE IF e.llm = "not_json"
    THEN Fail(st, "llm_call", "LLM response is not valid JSON")
    ELSE [st EXCEPT !.response = [decision |-> e.llm, confidence_level |-> "medium"],
                    !.telemetry_data = Put(@, "llm_call", e.llm)]

\* The ScopingDecision that save_decision_node builds
DecisionOf(st) ==
    [asset_uri |-> st.asset_uri, commitment_id |-> st.commitment_id,
     decision |-> st.response.decision,
     confidence_level |-> st.response.confidence_level,
     llm_call |-> IF "llm_call" \in DOMAIN st.telemetry_data
                  THEN st.telemetry_data["llm_call"] ELSE NoneStr,
     session_id |-> st.session_id]

\* Whether save_decision_node raises: no response, a ScopingDecision that
\* does not validate (asset: AssetURI and commitment_id: str are required),
\* or a database that rejects the write.
SaveRaises(st, e) ==
    \/ st.response = None
    \/ st.asset = None
    \/ st.commitment_id = NoneStr
    \/ e.down \in {"db", "db_write"}

\* The mutant of save_decision_node: state.decision is assigned before the
\* database write.
SaveDecisionNodeAssignFirst(st, e) ==
    IF st.response = None \/ st.asset = None \/ st.commitment_id = NoneStr
    THEN Fail(st, "save_decision", "Save decision error")
    ELSE IF e.down \in {"db", "db_write"}
    THEN Fail([st EXCEPT !.decision = DecisionOf(st)],
              "save_decision", "Save decision error")
    ELSE Tracked([st EXCEPT !.decision = DecisionOf(st)], "save_decision")

\* save_decision_node
SaveDecisionNode(st, e) ==
    IF SaveRaises(st, e)
    THEN Fail(st, "save_decision", "Save decision error")
    ELSE Tracked([st EXCEPT !.decision = DecisionOf(st)], "save_decision")

(***************************************************************************)
(* SpecIndex: any sequence of add, delete and clear calls on an in-memory  *)
(* index, followed by one search and one find_most_similar over the       *)
(* embeddings the index holds.                                             *)
(***************************************************************************)
DocIds == {"d1", "d2", "d3"}

IndexVecs == {<<1, 0>>, <<-1, 0>>, <<4, 3>>}

QueryVecs == {<<1, 0>>, <<4, 3>>}

MetaSet == {[type |-> "feedback", commitment_id |-> "c1"],
            [type |-> "commitment_chunk", commitment_id |-> "c1"]}

SearchFilters == {NoFilter, [type |-> "feedback"]}

\* None, 0.0, -0.5 and 0.7
SearchThresholds ==
    {NoThreshold, Threshold(0), Threshold(-(One \div 2)), Threshold((7 * One) \div 10)}

NoSearch == [searched |-> FALSE]

NoFind == [found |-> FALSE]

BackendNames == {"in_memory", "chroma", "pinecone"}

BackendsIdle ==
    /\ stores = [b \in BackendNames |-> <<>>]
    /\ lastAdd = [done |-> FALSE]

FunctionsIdle ==
    /\ ranking = None
    /\ scoring = None

ServicesIdle ==
    /\ collector = None
    /\ scan = None
    /\ chunking = None

RunIdle ==
    /\ env = None
    /\ state = None
    /\ pc = "off"
    /\ trace = <<>>
    /\ entry = None
    /\ checkpoints = None
    /\ lastRead = None

IndexIdle ==
    /\ documents = <<>>
    /\ insertLog = <<>>
    /\ touchLog = <<>>
    /\ lastSearch = NoSearch
    /\ lastFind = NoFind

\* vector_store.add_documents([doc])
AddDocumentsAct ==
    \E id \in DocIds, e \in IndexVecs, m \in MetaSet :
        /\ ~lastSearch.searched
        /\ documents' = AddDocuments(documents, <<[id |-> id, embedding |-> e, metadata |-> m]>>)
        /\ insertLog' = IF id \in SeqToSet(insertLog) THEN insertLog ELSE Append(insertLog, id)
        /\ touchLog' = Append(SelectSeq(touchLog, LAMBDA x : x # id), id)
        /\ UNCHANGED <<lastSearch, lastFind, backendVars, functionVars, runVars, serviceVars>>

\* vector_store.delete_by_id(id)
DeleteByIdAct ==
    \E id \in DocIds :
        /\ ~lastSearch.searched
        /\ documents' = DeleteById(documents, id)
        /\ insertLog' = SelectSeq(insertLog, LAMBDA x : x # id)
        /\ touchLog' = SelectSeq(touchLog, LAMBDA x : x # id)
        /\ UNCHANGED <<lastSearch, lastFind, backendVars, functionVars, runVars, serviceVars>>

\* vector_store.delete_by_metadata(filter)
DeleteByMetadataAct ==
    \E f \in SearchFilters \ {NoFilter} :
        /\ ~lastSearch.searched
        /\ documents' = DeleteByMetadata(documents, f)
        /\ insertLog' = SelectSeq(insertLog, LAMBDA x : x \in IdsOf(documents'))
        /\ touchLog' = SelectSeq(touchLog, LAMBDA x : x \in IdsOf(documents'))
        /\ UNCHANGED <<lastSearch, lastFind, backendVars, functionVars, runVars, serviceVars>>

\* vector_store.clear()
ClearAct ==
    /\ ~lastSearch.searched
    /\ documents # <<>>
    /\ documents' = <<>>
    /\ insertLog' = <<>>
    /\ touchLog' = <<>>
    /\ UNCHANGED <<lastSearch, lastFind, backendVars, functionVars, runVars, serviceVars>>

\* vector_store.search(query, top_k, filter, threshold)
SearchAct ==
    \E q \in QueryVecs, k \in 0..MaxTopK, f \in SearchFilters, t \in SearchThresholds :
        /\ ~lastSearch.searched
        /\ lastSearch' = [searched |-> TRUE, query |-> q, top_k |-> k, filter |-> f,
                          threshold |-> t,
                          results |-> Search(documents, q, k, f, t)]
        /\ UNCHANGED <<documents, insertLog, touchLog, lastFind, backendVars, functionVars, runVars, serviceVars>>

\* embedding_service.find_most_similar(query, [embeddings], top_k, threshold),
\* with the query, top_k and threshold of the search before it (threshold 0.0,
\* its default, where the search was given none).
FindMostSimilarAct ==
    /\ lastSearch.searched
    /\ ~lastFind.found
    /\ lastFind' = [found |-> TRUE, query |-> lastSearch.query,
                    top_k |-> lastSearch.top_k, threshold |-> lastSearch.threshold.v,
                    candidates |-> [i \in 1..Len(documents) |-> documents[i].embedding],
                    results |-> FindMostSimilar(lastSearch.query,
                                   [i \in 1..Len(documents) |-> documents[i].embedding],
                                   lastSearch.top_k, lastSearch.threshold.v)]
    /\ UNCHANGED <<documents, insertLog, touchLog, lastSearch, backendVars, functionVars, runVars, serviceVars>>

NextIndex ==
    \/ AddDocumentsAct
    \/ DeleteByIdAct
    \/ DeleteByMetadataAct
    \/ ClearAct
    \/ SearchAct
    \/ FindMostSimilarAct

InitIndex == IndexIdle /\ BackendsIdle /\ ServicesIdle /\ FunctionsIdle /\ RunIdle

SpecIndex == InitIndex /\ [][NextIndex]_vars

(***************************************************************************)
(* SpecBackends: add_documents calls on the three backends.                *)
(***************************************************************************)
\* Two ids, each in two versions of vector and metadata.
BackendDocs ==
    {[id |-> id, embedding |-> v.embedding, metadata |-> v.metadata] :
        id \in {"d1", "d2"},
        v \in {[embedding |-> <<1, 0>>,
                metadata |-> [type |-> "feedback", commitment_id |-> "c1"]],
               [embedding |-> <<4, 3>>,
                metadata |-> [type |-> "commitment_chunk", commitment_id |-> "c2"]]}}

\* The record of one add_documents([doc]) on a backend.
AddRecord(backend, doc, outcome) ==
    [done |-> TRUE, backend |-> backend, doc |-> doc, before |-> stores[backend],
     after |-> outcome.docs, raised |-> outcome.raised]

InMemoryAddAct ==
    \E doc \in BackendDocs :
        LET outcome == InMemoryAddDocuments(stores.in_memory, <<doc>>)
        IN  /\ stores' = [stores EXCEPT !.in_memory = outcome.docs]
            /\ lastAdd' = AddRecord("in_memory", doc, outcome)
            /\ UNCHANGED <<indexVars, functionVars, runVars, serviceVars>>

ChromaAddAct ==
    \E doc \in BackendDocs, onDuplicate \in ChromaOnDuplicate :
        LET outcome == ChromaAddDocuments(stores.chroma, <<doc>>, onDuplicate)
        IN  /\ stores' = [stores EXCEPT !.chroma = outcome.docs]
            /\ lastAdd' = AddRecord("chroma", doc, outcome)
            /\ UNCHANGED <<indexVars, functionVars, runVars, serviceVars>>

PineconeAddAct ==
    \E doc \in BackendDocs :
        LET outcome == PineconeAddDocuments(stores.pinecone, <<doc>>)
        IN  /\ stores' = [stores EXCEPT !.pinecone = outcome.docs]
            /\ lastAdd' = AddRecord("pinecone", doc, outcome)
            /\ UNCHANGED <<indexVars, functionVars, runVars, serviceVars>>

NextBackends ==
    \/ InMemoryAddAct
    \/ ChromaAddAct
    \/ PineconeAddAct

InitBackends == IndexIdle /\ BackendsIdle /\ ServicesIdle /\ FunctionsIdle /\ RunIdle

SpecBackends == InitBackends /\ [][NextBackends]_vars

(***************************************************************************)
(* SpecRank: the two feedback rankers applied to every list of up to       *)
(* MaxFeedback feedback records, every top_k and two thresholds.           *)
(***************************************************************************)
\* The longest list of feedback records.
MaxFeedback == 3

FeedbackIds == <<"f1", "f2", "f3", "f4", "f5">>

\* What a feedback record is made of, its id apart.
FeedbackPool ==
    [query_embedding : {<<1, 0>>, <<4, 3>>, <<-1, 0>>},
     agent_decision : {"in-scope", "out-of-scope"},
     days_old : {0, 400}]

FeedbackRecord(i, made) ==
    [id |-> FeedbackIds[i], commitment_id |-> "c1",
     agent_decision |-> made.agent_decision, rating |-> "up",
     query_embedding |-> made.query_embedding, days_old |-> made.days_old]

FeedbackLists ==
    UNION {{[i \in 1..n |-> FeedbackRecord(i, made[i])] : made \in [1..n -> FeedbackPool]} :
              n \in 0..MaxFeedback}

\* The document FeedbackCollector adds to the index for a feedback record
FeedbackDocument(f) ==
    [id |-> f.id, embedding |-> f.query_embedding,
     metadata |-> [type |-> "feedback", commitment_id |-> f.commitment_id]]

\* The index the processor searches: the feedback documents after a chunk.
FeedbackIndex(all_feedback) ==
    <<[id |-> "k1", embedding |-> <<1, 0>>,
       metadata |-> [type |-> "commitment_chunk", commitment_id |-> "c1"]]>>
        \o [i \in 1..Len(all_feedback) |-> FeedbackDocument(all_feedback[i])]

RankQuery == <<1, 0>>

RankThresholds == {0, SimilarityThreshold}

InitRank ==
    /\ IndexIdle /\ BackendsIdle /\ ServicesIdle /\ RunIdle
    /\ scoring = None
    /\ ranking \in [all_feedback : FeedbackLists, top_k : 1..MaxTopK,
                    threshold : RankThresholds, by : {"nobody"}, out : {NoRanking}]

\* retrieve_feedback_node's ranking, with feedback_top_k and
\* similarity_threshold as configured
RankFeedbackAct ==
    /\ ranking.by = "nobody"
    /\ ranking' = [ranking EXCEPT
           !.by = "pipeline",
           !.out = RankFeedback(RankQuery, ranking.all_feedback, ranking.top_k,
                                ranking.threshold)]
    /\ UNCHANGED <<indexVars, backendVars, scoring, runVars, serviceVars>>

\* feedback_processor.retrieve_similar_feedback(query, commitment_id, top_k, threshold)
RetrieveSimilarFeedbackAct ==
    \E commitment_id \in {NoneStr, "c1"} :
        /\ ranking.by = "nobody"
        /\ ranking' = [ranking EXCEPT
               !.by = "processor",
               !.out = RetrieveSimilarFeedback(FeedbackIndex(ranking.all_feedback),
                           ranking.all_feedback, RankQuery, commitment_id,
                           ranking.top_k, ranking.threshold)]
        /\ UNCHANGED <<indexVars, backendVars, scoring, runVars, serviceVars>>

NextRank ==
    \/ RankFeedbackAct
    \/ RetrieveSimilarFeedbackAct

SpecRank == InitRank /\ [][NextRank]_vars

(***************************************************************************)
(* Properties of the backends (SpecBackends) and of the rankers (SpecRank).*)
(***************************************************************************)
\* C8: in every backend, adding a document whose id the index holds
\* succeeds, leaves the count as it was, and leaves exactly one document of
\* that id, which carries the vector and the metadata just added.
C8_AddIsUpsert ==
    (lastAdd.done /\ lastAdd.doc.id \in IdsOf(lastAdd.before)) =>
        /\ ~lastAdd.raised
        /\ Len(lastAdd.after) = Len(lastAdd.before)
        /\ Cardinality({i \in 1..Len(lastAdd.after) :
                           lastAdd.after[i].id = lastAdd.doc.id}) = 1
        /\ \A i \in 1..Len(lastAdd.after) :
               lastAdd.after[i].id = lastAdd.doc.id => lastAdd.after[i] = lastAdd.doc

\* The similarity of a feedback record to the ranker's query.
BaseSimilarity(f) == CosineSimilarity(RankQuery, f.query_embedding)

RankedIds(list) == {list[i].feedback.id : i \in 1..Len(list)}

\* C9: the ranker's candidates are the (at most) 2 x top_k feedback records
\* most similar to the query among those at or above the threshold; it
\* returns at most top_k of them, in non-increasing order of final score, and
\* no candidate it leaves out has a higher final score than one it returns.
C9_RankerContract ==
    (ranking # None /\ ranking.by # "nobody") =>
        LET out == ranking.out
            all == ranking.all_feedback
        IN  /\ Len(out.candidates) <= 2 * ranking.top_k
            /\ \A i \in 1..Len(out.candidates) :
                   /\ \E j \in 1..Len(all) : all[j] = out.candidates[i].feedback
                   /\ out.candidates[i].base_score
                          = BaseSimilarity(out.candidates[i].feedback)
                   /\ out.candidates[i].base_score >= ranking.threshold
            /\ \A j \in 1..Len(all) :
                   (all[j].id \notin RankedIds(out.candidates)
                        /\ BaseSimilarity(all[j]) >= ranking.threshold)
                     => /\ Len(out.candidates) = 2 * ranking.top_k
                        /\ \A i \in 1..Len(out.candidates) :
                               out.candidates[i].base_score >= BaseSimilarity(all[j])
            /\ Len(out.top) <= ranking.top_k
            /\ \A i \in 1..Len(out.top) :
                   \E c \in 1..Len(out.candidates) : out.candidates[c] = out.top[i]
            /\ NonIncreasing([i \in 1..Len(out.top) |-> out.top[i].final_score])
            /\ \A c \in 1..Len(out.candidates), i \in 1..Len(out.top) :
                   out.candidates[c].feedback.id \notin RankedIds(out.top)
                       => out.candidates[c].final_score <= out.top[i].final_score

\* DecisionFeedback.frequency_weight as add_feedback stores it and
\* get_all_feedback reads it back: the default of the field, in hundredths.
StoredFrequencyWeight == 100

\* state.similar_feedback = [item[0] for item in top_feedback]: what
\* retrieve_feedback_node returns of a ranked item is the DecisionFeedback
\* object alone, with the frequency_weight it was stored with.
SimilarFeedbackItem(item) ==
    [id |-> item.feedback.id,
     commitment_id |-> item.feedback.commitment_id,
     agent_decision |-> item.feedback.agent_decision,
     frequency_weight |-> StoredFrequencyWeight]

\* The dictionary retrieve_similar_feedback returns for a ranked item.
WeightedFeedbackItem(item) ==
    [feedback_id |-> item.feedback.id,
     commitment_id |-> item.feedback.commitment_id,
     decision |-> item.feedback.agent_decision,
     similarity |-> item.base_score,
     frequency_weight |-> FrequencyWeight(item.cluster_size),
     cluster_size |-> item.cluster_size]

\* The entry of telemetry_data["feedback_retrieval"]["top_matches"] that
\* retrieve_feedback_node writes for a ranked item.
TopMatch(item) ==
    [feedback_id |-> item.feedback.id,
     base_similarity |-> item.base_score,
     final_score |-> item.final_score,
     cluster_size |-> item.cluster_size]

\* The items the ranker that ran hands back to its caller.
ReturnedFeedback ==
    [i \in 1..Len(ranking.out.top) |->
        IF ranking.by = "pipeline"
        THEN SimilarFeedbackItem(ranking.out.top[i])
        ELSE WeightedFeedbackItem(ranking.out.top[i])]

\* The number of candidates of the ranking that share the key of feedback f.
CandidatesSharingKey(f) ==
    Cardinality({j \in 1..Len(ranking.out.candidates) :
                    ClusterKey(ranking.out.candidates[j].feedback) = ClusterKey(f)})

\* C24: every item either ranker returns carries a cluster size (in the
\* item, or for the pipeline in the telemetry entry written for it) equal to
\* the number of candidates sharing its (commitment, decision) key and a
\* frequency weight of 1.0 + (cluster size - 1) * frequency_boost_factor
\* (here in hundredths), which is at least 1.0 and 1.0 for a cluster of one.
C24_ItemsCarryClusterAndWeight ==
    (ranking # None /\ ranking.by # "nobody") =>
        \A i \in 1..Len(ranking.out.top) :
            LET item == ReturnedFeedback[i]
                size == CandidatesSharingKey(ranking.out.top[i].feedback)
                carried == IF "cluster_size" \in DOMAIN item
                           THEN item.cluster_size
                           ELSE TopMatch(ranking.out.top[i]).cluster_size
            IN  /\ carried = size
                /\ item.frequency_weight * One
                       = 100 * (One + (size - 1) * FrequencyBoostFactor)
                /\ item.frequency_weight >= 100
                /\ size = 1 => item.frequency_weight = 100

(***************************************************************************)
(* SpecRecency: the recency boost of retrieve_feedback_node for a feedback *)
(* record created at created_at and ranked at utcnow, both in hours, for   *)
(* every age of up to MaxAgeDays days.                                     *)
(***************************************************************************)
MaxAgeDays == 366

HoursPerDay == 24

\* A record made at midnight and one made at noon.
CreatedAts == {0, HoursPerDay \div 2}

\* (datetime.utcnow() - feedback.created_at).days: the whole days elapsed
DaysOld(utcnow, created_at) == (utcnow - created_at) \div HoursPerDay

InitRecency ==
    /\ IndexIdle /\ BackendsIdle /\ ServicesIdle /\ RunIdle
    /\ scoring = None
    /\ ranking \in {r \in [created_at : CreatedAts,
                           utcnow : 0..(MaxAgeDays * HoursPerDay + HoursPerDay - 1),
                           evaluated : {FALSE}, days_old : {0}, recency_boost : {0}] :
                       r.utcnow >= r.created_at}

\* Lines 90-91 of retrieve_feedback_node for one feedback record.
RecencyBoostAct ==
    /\ ~ranking.evaluated
    /\ ranking' = [ranking EXCEPT
           !.evaluated = TRUE,
           !.days_old = DaysOld(ranking.utcnow, ranking.created_at),
           !.recency_boost = RecencyBoost(DaysOld(ranking.utcnow, ranking.created_at))]
    /\ UNCHANGED <<indexVars, backendVars, scoring, runVars, serviceVars>>

NextRecency == RecencyBoostAct

SpecRecency == InitRecency /\ [][NextRecency]_vars

\* The age of the ranked record in whole days, counted from the two times.
AgeInDays ==
    CHOOSE d \in 0..(MaxAgeDays + 1) :
        /\ d * HoursPerDay <= ranking.utcnow - ranking.created_at
        /\ ranking.utcnow - ranking.created_at < (d + 1) * HoursPerDay

\* C25: the recency boost (times DaysPerYear) is
\* max(0, recency_weight * (1 - age / 365)) for the age in days: it is never
\* negative, never above recency_weight, recency_weight at age 0, smaller
\* than for every younger age when the age is below 365 days, and 0 from 365
\* days on.
C25_RecencyBoost ==
    (ranking # None /\ ranking.evaluated) =>
        LET boost == ranking.recency_boost
            whole == RecencyWeight * DaysPerYear
        IN  /\ boost = IF AgeInDays >= DaysPerYear
                       THEN 0
                       ELSE RecencyWeight * (DaysPerYear - AgeInDays)
            /\ boost >= 0
            /\ boost <= whole
            /\ AgeInDays = 0 => boost = whole
            /\ (0 < AgeInDays /\ AgeInDays < DaysPerYear) =>
                   /\ boost < whole
                   /\ boost > 0
                   /\ \A younger \in 0..(AgeInDays - 1) : RecencyBoost(younger) > boost
            /\ AgeInDays >= DaysPerYear => boost = 0

\* A record made at noon is ranked 364 days and some hours later and gets
\* the smallest boost above 0.
C25_Witness ==
    /\ ranking # None /\ ranking.evaluated
    /\ ranking.created_at # 0
    /\ AgeInDays = DaysPerYear - 1
    /\ ranking.recency_boost = RecencyWeight

(***************************************************************************)
(* SpecSameAge: the two feedback rankers applied to lists of up to         *)
(* MaxFeedback records that all have the same age, with base similarities  *)
(* 1.0, 12/13 and 0.8 to the query.                                        *)
(***************************************************************************)
SameAgeLists ==
    UNION {{[i \in 1..n |-> FeedbackRecord(i, [query_embedding |-> made[i].query_embedding,
                                               agent_decision |-> made[i].agent_decision,
                                               days_old |-> age])] :
               made \in [1..n -> [query_embedding : {<<1, 0>>, <<12, 5>>, <<4, 3>>},
                                  agent_decision : {"in-scope", "out-of-scope"}]]} :
              n \in 0..MaxFeedback, age \in {0, 400}}

InitSameAge ==
    /\ IndexIdle /\ BackendsIdle /\ ServicesIdle /\ RunIdle
    /\ scoring = None
    /\ ranking \in [all_feedback : SameAgeLists, top_k : 1..MaxTopK,
                    threshold : RankThresholds, by : {"nobody"}, out : {NoRanking}]

SpecSameAge == InitSameAge /\ [][NextRank]_vars

\* The ids of a ranked list, in its order.
IdsInOrder(list) == [i \in 1..Len(list) |-> list[i].feedback.id]

\* What FeedbackProcessor.retrieve_similar_feedback returns for the inputs
\* of the ranking.
ByProcessor ==
    RetrieveSimilarFeedback(FeedbackIndex(ranking.all_feedback), ranking.all_feedback,
                            RankQuery, NoneStr, ranking.top_k, ranking.threshold)

\* C26: when all records have the same age and both rankers have the same
\* candidates, the ranker that adds the boosts (retrieve_feedback_node) and
\* the one that multiplies by the frequency weight (FeedbackProcessor)
\* return the same feedback items in the same order.
C26_AdditiveAsMultiplicative ==
    (/\ ranking # None /\ ranking.by = "pipeline"
     /\ \A i, j \in 1..Len(ranking.all_feedback) :
            ranking.all_feedback[i].days_old = ranking.all_feedback[j].days_old
     /\ RankedIds(ByProcessor.candidates) = RankedIds(ranking.out.candidates))
        => IdsInOrder(ranking.out.top) = IdsInOrder(ByProcessor.top)

(***************************************************************************)
(* SpecConf: the confidence scorer applied to every state of its inputs:   *)
(* the RAGContext of up to MaxChunks chunk similarities in [-1, 1] (or     *)
(* none), and up to MaxFeedback retrieved feedback records with the        *)
(* FeedbackContext of their mean similarity (or none).                     *)
(***************************************************************************)
\* The most chunks a RAGContext is built of.
MaxChunks == 2

\* -1.0, -0.8, 0.0, 0.8 and 1.0
ChunkSimilarities == {-One, -((4 * One) \div 5), 0, (4 * One) \div 5, One}

ChunkLists ==
    UNION {{[i \in 1..n |-> [id |-> i, score |-> scores[i]]] :
               scores \in [1..n -> ChunkSimilarities]} : n \in 0..MaxChunks}

\* The chunks as retrieve_rag_node keeps them: sorted by score.
RagContexts ==
    {None} \cup {RagContextOf(Permute(chunks, StableDescOrder(ScoresOf(chunks)))) :
                    chunks \in ChunkLists}

RetrievedFeedbackLists ==
    UNION {[1..n -> [agent_decision : {"in-scope", "out-of-scope", "insufficient-data"},
                     rating : {"up", "down"}]] : n \in 0..MaxFeedback}

\* The mean similarity of retrieved feedback: 0.7, 0.85 or 1.0
FeedbackAverages == {SimilarityThreshold, (85 * One) \div 100, One}

\* The FeedbackContext that goes with a list of retrieved feedback.
FeedbackContexts(similar_feedback) ==
    IF similar_feedback = <<>>
    THEN {None,
          [total_feedback_count |-> 0, retrieved_count |-> 0, avg_similarity |-> 0,
           frequency_clusters |-> 0]}
    ELSE {[total_feedback_count |-> Len(similar_feedback),
           retrieved_count |-> Len(similar_feedback), avg_similarity |-> avg,
           frequency_clusters |-> 1] : avg \in FeedbackAverages}

InitConf ==
    /\ IndexIdle /\ BackendsIdle /\ ServicesIdle /\ RunIdle
    /\ ranking = None
    /\ \E rag_context \in RagContexts, similar_feedback \in RetrievedFeedbackLists :
           \E feedback_context \in FeedbackContexts(similar_feedback) :
               scoring = [rag_context |-> rag_context,
                          feedback_context |-> feedback_context,
                          similar_feedback |-> similar_feedback,
                          assessed |-> FALSE,
                          out |-> AssessConfidence(None, None, <<>>)]

\* The body of assess_confidence_node on the state drawn
AssessConfidenceAct ==
    /\ ~scoring.assessed
    /\ scoring' = [scoring EXCEPT
           !.assessed = TRUE,
           !.out = AssessConfidence(scoring.rag_context, scoring.feedback_context,
                                    scoring.similar_feedback)]
    /\ UNCHANGED <<indexVars, backendVars, ranking, runVars, serviceVars>>

NextConf == AssessConfidenceAct

SpecConf == InitConf /\ [][NextConf]_vars

\* C10: whatever state reaches the scorer, it produces an assessment whose
\* score is in [0, 1], whose policy-evidence term is in [0, 0.4], whose
\* feedback term is in [0, 0.4] and whose agreement term is in [0, 0.2].
C10_ConfidenceInRange ==
    (scoring # None /\ scoring.assessed) =>
        /\ ~scoring.out.raised
        /\ scoring.out.score >= 0 /\ scoring.out.score <= 10 * One
        /\ scoring.out.rag >= 0 /\ scoring.out.rag <= 4 * One
        /\ scoring.out.feedback >= 0 /\ scoring.out.feedback <= 4 * One
        /\ scoring.out.agreement >= 0 /\ scoring.out.agreement <= 2 * One

\* The inputs of the scorer as the claims name them.
ChunksRetrieved ==
    IF scoring.rag_context = None THEN 0 ELSE scoring.rag_context.chunks_retrieved

AvgChunkSimilarity ==
    IF scoring.rag_context = None THEN 0 ELSE scoring.rag_context.avg_similarity

FeedbackItems == Len(scoring.similar_feedback)

AvgFeedbackSimilarity ==
    IF scoring.feedback_context = None THEN 0 ELSE scoring.feedback_context.avg_similarity

DistinctDecisions ==
    Cardinality({scoring.similar_feedback[i].agent_decision : i \in 1..FeedbackItems})

DownRatings ==
    Cardinality({i \in 1..FeedbackItems : scoring.similar_feedback[i].rating = "down"})

Assessed == scoring # None /\ scoring.assessed /\ ~scoring.out.raised

\* C11: the score of an assessment is the sum of three terms: min(0.4,
\* average chunk similarity x 0.5) when a chunk was retrieved, else 0; average
\* feedback similarity x 0.2 plus 0.15, 0.10, 0.05 or 0 for three or more,
\* two, one or no feedback items; and 0.2, 0.1, 0.0 or 0.0 for one, two,
\* three or more distinct prior decisions or no feedback, halved exactly
\* when strictly more than half of the feedback ratings are down.
C11_ScoreIsSumOfTerms ==
    Assessed =>
        LET chunkTerm == IF ChunksRetrieved >= 1
                         THEN (IF AvgChunkSimilarity * 5 < 4 * One
                               THEN AvgChunkSimilarity * 5 ELSE 4 * One)
                         ELSE 0
            bonus == CASE FeedbackItems >= 3 -> (15 * One) \div 10
                       [] FeedbackItems = 2 -> One
                       [] FeedbackItems = 1 -> One \div 2
                       [] FeedbackItems = 0 -> 0
            feedbackTerm == AvgFeedbackSimilarity * 2 + bonus
            agreement == CASE FeedbackItems = 0 -> 0
                           [] FeedbackItems > 0 /\ DistinctDecisions = 1 -> 2 * One
                           [] FeedbackItems > 0 /\ DistinctDecisions = 2 -> One
                           [] FeedbackItems > 0 /\ DistinctDecisions >= 3 -> 0
            agreementTerm == IF 2 * DownRatings > FeedbackItems
                             THEN agreement \div 2 ELSE agreement
        IN  /\ scoring.out.rag = chunkTerm
            /\ scoring.out.feedback = feedbackTerm
            /\ scoring.out.agreement = agreementTerm
            /\ scoring.out.score = chunkTerm + feedbackTerm + agreementTerm

\* The capped chunk term, two feedback items of which exactly half are down
\* (not halved) and two distinct decisions.
C11_Witness ==
    /\ Assessed
    /\ ChunksRetrieved = 2 /\ AvgChunkSimilarity = One
    /\ FeedbackItems = 2 /\ DownRatings = 1 /\ DistinctDecisions = 2
    /\ scoring.out.score = 4 * One + (2 * AvgFeedbackSimilarity + One) + One

\* C12: the level is a monotone function of the score: high from 0.85,
\* medium from 0.70 to below 0.85, low from 0.50 to below 0.70, insufficient
\* below; no chunks and no feedback give score 0 and level insufficient;
\* average chunk similarity 0.90 with three aligned up-rated feedback items
\* of average similarity 0.85 gives level high.
C12_LevelByScore ==
    Assessed =>
        LET score == scoring.out.score
            level == scoring.out.level
        IN  /\ level = "high" <=> 100 * score >= 85 * 10 * One
            /\ level = "medium" <=> (100 * score >= 70 * 10 * One
                                     /\ 100 * score < 85 * 10 * One)
            /\ level = "low" <=> (100 * score >= 50 * 10 * One
                                  /\ 100 * score < 70 * 10 * One)
            /\ level = "insufficient" <=> 100 * score < 50 * 10 * One
            /\ (ChunksRetrieved = 0 /\ FeedbackItems = 0)
                   => (score = 0 /\ level = "insufficient")
            /\ (/\ ChunksRetrieved > 0 /\ 10 * AvgChunkSimilarity = 9 * One
                /\ FeedbackItems = 3 /\ DistinctDecisions = 1 /\ DownRatings = 0
                /\ 100 * AvgFeedbackSimilarity = 85 * One)
                   => level = "high"

\* The second scenario of C12, with the score it gives: 0.4 + 0.32 + 0.2
C12_Witness ==
    /\ Assessed
    /\ ChunksRetrieved = 2 /\ 10 * AvgChunkSimilarity = 9 * One
    /\ FeedbackItems = 3 /\ DistinctDecisions = 1 /\ DownRatings = 0
    /\ 100 * AvgFeedbackSimilarity = 85 * One
    /\ 100 * scoring.out.score = 92 * 10 * One
    /\ scoring.out.level = "high"

\* C29: with the default thresholds, when no feedback was retrieved the
\* score the stage computes is at most 0.4 and its level is insufficient,
\* whatever chunks were retrieved; a level of low, medium or high is
\* computed only for a state with at least one retrieved feedback item.
C29_NoFeedbackIsInsufficient ==
    Assessed =>
        /\ FeedbackItems = 0 =>
               /\ scoring.out.score <= 4 * One
               /\ scoring.out.score = scoring.out.rag
               /\ scoring.out.level = "insufficient"
        /\ scoring.out.level \in {"low", "medium", "high"} =>
               /\ FeedbackItems >= 1
               /\ scoring.feedback_context # None
               /\ scoring.feedback_context.retrieved_count >= 1

\* Chunks of similarity 1.0 and no feedback: the score is 0.4, the most the
\* chunks give, and the level is insufficient.
C29_Witness ==
    /\ Assessed
    /\ FeedbackItems = 0
    /\ ChunksRetrieved >= 2
    /\ AvgChunkSimilarity = One
    /\ scoring.out.score = 4 * One
    /\ scoring.out.level = "insufficient"

(***************************************************************************)
(* Spec: one call of EvidencingAgent.run in every world of Worlds, with    *)
(* every request of the sets below.  The graph executes one node per step  *)
(* and the checkpointer saves the state after each.                        *)
(***************************************************************************)
\* create_evidencing_graph: the nodes, in the order of the edges from the
\* entry point to END.
NodeOrder ==
    <<"parse_asset", "retrieve_rag", "retrieve_decisions", "retrieve_feedback",
      "tool_research", "assess_confidence", "build_prompt", "llm_call",
      "save_decision">>

\* The mutant of the edges: a state that enters a node with errors is
\* routed from it to END.
NextNodeEndOnError(node) ==
    LET i == CHOOSE k \in 1..Len(NodeOrder) : NodeOrder[k] = node
    IN  IF i = Len(NodeOrder) \/ state.errors # <<>> THEN "END" ELSE NodeOrder[i + 1]

\* workflow.add_edge(node, NextNode(node))
NextNode(node) ==
    LET i == CHOOSE k \in 1..Len(NodeOrder) : NodeOrder[k] = node
    IN  IF i = Len(NodeOrder) THEN "END" ELSE NodeOrder[i + 1]

Doc(id, type, commitment_id, embedding) ==
    [id |-> id, embedding |-> embedding,
     metadata |-> [type |-> type, commitment_id |-> commitment_id]]

\* The index of a world: chunks, summaries and a decision that agree with
\* the query; one chunk opposed to it; nothing.
IndexWorlds ==
    {<<Doc("k1", "commitment_chunk", "c1", <<1, 0>>),
       Doc("k2", "commitment_chunk", "c1", <<4, 3>>),
       Doc("k3", "commitment_chunk", "c2", <<4, 3>>),
       Doc("s1", "commitment_summary", "c1", <<1, 0>>),
       Doc("s2", "commitment_summary", "c2", <<3, 4>>),
       Doc("x1", "decision", "c1", <<1, 0>>)>>,
     <<Doc("k1", "commitment_chunk", "c1", <<-1, 0>>),
       Doc("s1", "commitment_summary", "c1", <<4, 3>>)>>,
     <<>>}

Feedback(id, agent_decision, rating, query_embedding, days_old) ==
    [id |-> id, commitment_id |-> "c1", agent_decision |-> agent_decision,
     rating |-> rating, query_embedding |-> query_embedding, days_old |-> days_old]

\* The feedback table of a world: empty, one record, two records, and one
\* record stored without its embedding.
FeedbackWorlds ==
    {<<>>,
     <<Feedback("f1", "in-scope", "up", <<1, 0>>, 0)>>,
     <<Feedback("f1", "in-scope", "up", <<1, 0>>, 0),
       Feedback("f2", "out-of-scope", "down", <<4, 3>>, 400)>>,
     <<Feedback("f1", "in-scope", "up", <<>>, 0)>>}

Commitments == {[id |-> "c1", name |-> "P1"], [id |-> "c2", name |-> "P2"]}

\* "asset://a.b.c", "a.b.c", "asset://a.b" and "asset://a.asset://b.c"
AssetUris ==
    {<<Scheme, "a", ".", "b", ".", "c">>,
     <<"a", ".", "b", ".", "c">>,
     <<Scheme, "a", ".", "b">>,
     <<Scheme, "a", ".", Scheme, "b", ".", "c">>}

\* The arguments the callers of a world pass to run.
AnyCallers ==
    [asset_uris |-> AssetUris, commitment_ids |-> {NoneStr, "c1", "P1", "zz"},
     commitment_queries |-> {NoneStr, "ads"}, session_ids |-> {NoneStr, "s1"},
     thread_ids |-> {NoneStr, "t1"}]

\* An index of five commitments: the summaries of four match the query (1.0,
\* 0.8 twice and 0.6), one does not (0.0); the three that match it best have
\* four chunks each, so that with rag_top_k set to 4 the merge finds twelve
\* chunks.
ManyChunks ==
    <<Doc("s4", "commitment_summary", "c4", <<3, 4>>),
      Doc("s3", "commitment_summary", "c3", <<4, 3>>),
      Doc("s5", "commitment_summary", "c5", <<0, 1>>),
      Doc("s2", "commitment_summary", "c2", <<4, 3>>),
      Doc("s1", "commitment_summary", "c1", <<1, 0>>),
      Doc("a1", "commitment_chunk", "c1", <<0, 1>>),
      Doc("a2", "commitment_chunk", "c1", <<4, 3>>),
      Doc("a3", "commitment_chunk", "c1", <<1, 0>>),
      Doc("a4", "commitment_chunk", "c1", <<3, 4>>),
      Doc("b1", "commitment_chunk", "c2", <<4, 3>>),
      Doc("b2", "commitment_chunk", "c2", <<-1, 0>>),
      Doc("b3", "commitment_chunk", "c2", <<4, 3>>),
      Doc("b4", "commitment_chunk", "c2", <<3, 4>>),
      Doc("d1", "commitment_chunk", "c3", <<1, 0>>),
      Doc("d2", "commitment_chunk", "c3", <<0, 1>>),
      Doc("d3", "commitment_chunk", "c3", <<3, 4>>),
      Doc("d4", "commitment_chunk", "c3", <<0, 1>>)>>

\* The worlds in which every service is up, those in which one is down, and
\* the world of ManyChunks.
Worlds ==
    [index : IndexWorlds, all_feedback : FeedbackWorlds, commitments : {Commitments},
     embedding : {<<1, 0>>}, decisions : {<<>>}, down : {"none"},
     llm : {"in-scope", "not_json"}, llm_later : {"in-scope"}, rag_top_k : {RagTopK},
     callers : {AnyCallers}, requests : {1}]
    \cup
    [index : {w \in IndexWorlds : Len(w) > 2},
     all_feedback : {w \in FeedbackWorlds : Len(w) < 2 /\ \A i \in 1..Len(w) : w[i].query_embedding # <<>>},
     commitments : {Commitments}, embedding : {<<1, 0>>}, decisions : {<<>>},
     down : {"embedding", "vector_store", "db", "db_write", "llm"},
     llm : {"in-scope"}, llm_later : {"in-scope"}, rag_top_k : {RagTopK},
     callers : {AnyCallers}, requests : {1}]
    \cup
    {[index |-> ManyChunks, all_feedback |-> <<>>,
      commitments |-> Commitments \cup {[id |-> "c3", name |-> "P3"],
                                          [id |-> "c4", name |-> "P4"],
                                          [id |-> "c5", name |-> "P5"]},
      embedding |-> <<1, 0>>, decisions |-> <<>>, down |-> "none",
      llm |-> "in-scope", llm_later |-> "in-scope", rag_top_k |-> 4,
      callers |-> AnyCallers, requests |-> 1]}

\* MemorySaver(): no thread has a checkpoint.
EmptyStore == [thread_id \in {} |-> <<>>]

\* The agent before its first call.  checkpoints.thread_id is the thread of
\* the call under way, checkpoints.saved the checkpointer, and
\* checkpoints.requests the history of the calls: what identifier the
\* caller gave and which thread the call used.
AgentReady ==
    /\ state = None
    /\ pc = "ready"
    /\ trace = <<>>
    /\ entry = None
    /\ checkpoints = [thread_id |-> NoneStr, saved |-> EmptyStore, requests |-> <<>>]
    /\ lastRead = None

Init ==
    /\ IndexIdle /\ BackendsIdle /\ ServicesIdle /\ FunctionsIdle
    /\ env \in Worlds
    /\ AgentReady

\* The checkpoints of a thread, oldest first
SavedUnder(saved, thread_id) ==
    IF thread_id \in DOMAIN saved THEN saved[thread_id] ELSE <<>>

\* The values a thread holds: those of its newest checkpoint
ValuesOf(saved, thread_id) ==
    IF thread_id \in DOMAIN saved
    THEN saved[thread_id][Len(saved[thread_id])].values
    ELSE None

\* The fields of AgentState that run() does not pass and whose default is
\* a plain None: the input does not write them to the thread.
Carried ==
    {"commitment_name", "asset", "commitment", "rag_context", "feedback_context",
     "confidence", "response", "decision"}

\* graph.invoke(initial_state, config): the input is written over the
\* values the thread holds.
InvokeState(held, initial_state) ==
    IF held = None
    THEN initial_state
    ELSE [f \in DOMAIN initial_state |->
             IF f \in Carried THEN held[f] ELSE initial_state[f]]

\* A checkpoint: the values saved, and (history) the call that saved them
Checkpoint(run, values) == [run |-> run, values |-> values]

\* EvidencingAgent.run up to the first node: the ValueError, or the input
\* written to the thread "thread_id or session_id or ''" with the two
\* checkpoints the graph saves before it executes a node.
RunAct ==
    \E asset_uri \in env.callers.asset_uris,
       commitment_id \in env.callers.commitment_ids,
       commitment_query \in env.callers.commitment_queries,
       session_id \in env.callers.session_ids,
       thread_id \in env.callers.thread_ids :
        /\ \/ pc = "ready"
           \/ pc = "END" /\ Len(checkpoints.requests) < env.requests
        /\ IF ~Truthy(commitment_id) /\ ~Truthy(commitment_query)
           THEN /\ pc' = "raised"
                /\ UNCHANGED <<state, checkpoints>>
           ELSE LET initial_state ==
                        InitialState(asset_uri, commitment_id, commitment_query,
                                     IF Truthy(session_id) THEN session_id ELSE "")
                    thread == IF Truthy(thread_id) THEN thread_id
                              ELSE IF Truthy(session_id) THEN session_id
                              ELSE initial_state.session_id
                    run == Len(checkpoints.requests) + 1
                    held == ValuesOf(checkpoints.saved, thread)
                    input == InvokeState(held, initial_state)
                IN  /\ pc' = NodeOrder[1]
                    /\ state' = input
                    /\ checkpoints' =
                           [thread_id |-> thread,
                            saved |-> (thread :> (SavedUnder(checkpoints.saved, thread)
                                                    \o <<Checkpoint(run, held),
                                                         Checkpoint(run, input)>>))
                                          @@ checkpoints.saved,
                            requests |-> Append(checkpoints.requests,
                                [given |-> IF Truthy(thread_id) THEN thread_id
                                           ELSE IF Truthy(session_id) THEN session_id
                                           ELSE NoneStr,
                                 thread |-> thread])]
        /\ trace' = <<>>
        /\ entry' = None
        /\ lastRead' = None
        /\ env' = IF pc = "END" THEN [env EXCEPT !.llm = env.llm_later] ELSE env
        /\ UNCHANGED <<indexVars, backendVars, functionVars, serviceVars>>

\* What the graph does around a node: the edge out of it and the checkpoint.
Executed(node) ==
    /\ pc' = NextNode(node)
    /\ trace' = Append(trace, node)
    /\ entry' = state
    /\ checkpoints' =
           [checkpoints EXCEPT !.saved[checkpoints.thread_id] =
               Append(@, Checkpoint(Len(checkpoints.requests), state'))]
    /\ lastRead' = lastRead
    /\ UNCHANGED <<indexVars, backendVars, functionVars, serviceVars>>

ParseAssetAct ==
    /\ pc = "parse_asset"
    /\ state' = ParseAssetNode(state)
    /\ env' = env
    /\ Executed("parse_asset")

RetrieveRagAct ==
    /\ pc = "retrieve_rag"
    /\ state' = RetrieveRagNode(state, env)
    /\ env' = env
    /\ Executed("retrieve_rag")

RetrieveDecisionsAct ==
    /\ pc = "retrieve_decisions"
    /\ state' = RetrieveDecisionsNode(state, env)
    /\ env' = env
    /\ Executed("retrieve_decisions")

RetrieveFeedbackAct ==
    /\ pc = "retrieve_feedback"
    /\ state' = RetrieveFeedbackNode(state, env)
    /\ env' = env
    /\ Executed("retrieve_feedback")

ToolResearchAct ==
    /\ pc = "tool_research"
    /\ state' = ToolResearchNode(state)
    /\ env' = env
    /\ Executed("tool_research")

AssessConfidenceNodeAct ==
    /\ pc = "assess_confidence"
    /\ state' = AssessConfidenceNode(state)
    /\ env' = env
    /\ Executed("assess_confidence")

BuildPromptAct ==
    /\ pc = "build_prompt"
    /\ state' = BuildPromptNode(state)
    /\ env' = env
    /\ Executed("build_prompt")

LlmCallAct ==
    /\ pc = "llm_call"
    /\ state' = LlmCallNode(state, env)
    /\ env' = env
    /\ Executed("llm_call")

\* save_decision_node, with the row db.add_scoping_decision writes
SaveDecisionAct ==
    /\ pc = "save_decision"
    /\ state' = SaveDecisionNode(state, env)
    /\ env' = IF SaveRaises(state, env)
              THEN env
              ELSE [env EXCEPT !.decisions = Append(@, state'.decision)]
    /\ Executed("save_decision")

Next ==
    \/ RunAct
    \/ ParseAssetAct
    \/ RetrieveRagAct
    \/ RetrieveDecisionsAct
    \/ RetrieveFeedbackAct
    \/ ToolResearchAct
    \/ AssessConfidenceNodeAct
    \/ BuildPromptAct
    \/ LlmCallAct
    \/ SaveDecisionAct

Spec == Init /\ [][Next]_vars

\* The graph runs in the caller's thread: a node that is due is executed.
SpecLive == Spec /\ WF_vars(Next)

(***************************************************************************)
(* SpecThreads: an agent that is called twice and whose checkpointer is    *)
(* read, in worlds with few callers.                                       *)
(***************************************************************************)
RECURSIVE Reversed(_)
Reversed(seq) == IF seq = <<>> THEN <<>> ELSE Append(Reversed(Tail(seq)), Head(seq))

\* get_checkpoint_history: the snapshots of graph.get_state_history, which
\* yields the newest first, in the order yielded.
GetCheckpointHistory(saved, thread_id) == Reversed(SavedUnder(saved, thread_id))

\* get_current_state: AgentState(**values) of the newest snapshot; None for
\* a thread without values and when AgentState does not validate, which is
\* the case when similar_feedback (list[dict]) holds DecisionFeedback objects.
GetCurrentState(saved, thread_id) ==
    TheOne({IF values = None THEN None
            ELSE IF values.similar_feedback # <<>> THEN None
            ELSE values
            : values \in {ValuesOf(saved, thread_id)}})

\* The callers of a world of SpecThreads
FewCallers ==
    [asset_uris |-> {<<Scheme, "a", ".", "b", ".", "c">>, <<"a", ".", "b", ".", "c">>},
     commitment_ids |-> {"c1"}, commitment_queries |-> {NoneStr},
     session_ids |-> {NoneStr, "s1"}, thread_ids |-> {NoneStr, "t1", "t2"}]

\* The threads a reader asks for: those callers use and one nobody uses
ReadThreadIds == {"", "s1", "t1", "t2", "t9"}

\* The worlds of SpecThreads: every service up, no feedback stored or one
\* record similar to the query, and two calls of run, to the second of which
\* the model answers with a verdict or with text that is not JSON.
ThreadWorlds ==
    {[w EXCEPT !.callers = FewCallers, !.requests = 2, !.llm_later = later] :
        later \in {"in-scope", "not_json"},
        w \in {v \in Worlds : /\ v.down = "none" /\ v.llm = "in-scope"
                              /\ Len(v.index) = 6
                              /\ Len(v.all_feedback) <= 1
                              /\ \A i \in 1..Len(v.all_feedback) :
                                     v.all_feedback[i].query_embedding # <<>>}}

InitThreads ==
    /\ IndexIdle /\ BackendsIdle /\ ServicesIdle /\ FunctionsIdle
    /\ env \in ThreadWorlds
    /\ AgentReady

\* No call of run is under way.
AgentIdle == pc \in {"ready", "END"}

Read(op, thread_id, result) ==
    [op |-> op, thread_id |-> thread_id, result |-> result, store |-> checkpoints.saved]

GetCheckpointHistoryAct ==
    \E thread_id \in ReadThreadIds :
        /\ AgentIdle
        /\ lastRead' = Read("get_checkpoint_history", thread_id,
                            GetCheckpointHistory(checkpoints.saved, thread_id))
        /\ UNCHANGED <<env, state, pc, trace, entry, checkpoints,
                       indexVars, backendVars, functionVars, serviceVars>>

GetCurrentStateAct ==
    \E thread_id \in ReadThreadIds :
        /\ AgentIdle
        /\ lastRead' = Read("get_current_state", thread_id,
                            [state |-> GetCurrentState(checkpoints.saved, thread_id)])
        /\ UNCHANGED <<env, state, pc, trace, entry, checkpoints,
                       indexVars, backendVars, functionVars, serviceVars>>

NextThreads ==
    \/ Next
    \/ GetCheckpointHistoryAct
    \/ GetCurrentStateAct

SpecThreads == InitThreads /\ [][NextThreads]_vars

(***************************************************************************)
(* The feedback collector: FeedbackCollector.submit_feedback writes a      *)
(* feedback row to the database and a document to the collector's index.   *)
(***************************************************************************)
\* Submissions made to one collector.
MaxSubmissions == 3

\* The rows of scoping_decisions that db.get_scoping_decision can return.
DecisionTable ==
    ("x1" :> [asset_uri |-> "asset://a.b.c", commitment_id |-> "c1",
              decision |-> "in-scope", query_embedding |-> <<1, 0>>])
    @@ ("x2" :> [asset_uri |-> "asset://d.e.f", commitment_id |-> "c2",
                 decision |-> "out-of-scope", query_embedding |-> <<4, 3>>])

\* What callers pass to submit_feedback.
SubmittedDecisionIds == {"x1", "x2", "zz"}
Ratings == {"up", "down"}
Corrections == {NoneStr, "", "in-scope"}

\* DecisionFeedback.id: default_factory uuid4, an id never issued before.
Uuid4(made) == made + 1

\* db.get_scoping_decision: the row, or None.
GetScopingDecision(decisions, decision_id) ==
    IF decision_id \in DOMAIN decisions THEN decisions[decision_id] ELSE None

\* The DecisionFeedback that submit_feedback builds.
FeedbackOf(id, decision_id, decision_data, rating, human_correction) ==
    [id |-> id, decision_id |-> decision_id,
     asset_uri |-> decision_data.asset_uri,
     commitment_id |-> decision_data.commitment_id,
     query_embedding |-> <<>>,
     agent_decision |-> decision_data.decision,
     rating |-> rating, human_correction |-> human_correction]

\* The VectorDocument that submit_feedback builds.
VectorDocOf(feedback, decision_data) ==
    [id |-> feedback.id, embedding |-> decision_data.query_embedding,
     metadata |-> [type |-> "feedback",
                   commitment_id |-> decision_data.commitment_id,
                   asset_uri |-> decision_data.asset_uri,
                   rating |-> feedback.rating,
                   decision |-> decision_data.decision]]

\* submit_feedback without the check of the correction.
SubmitFeedbackUnchecked(c, decision_id, rating, human_correction) ==
    LET decision_data == GetScopingDecision(c.decisions, decision_id)
        feedback == FeedbackOf(Uuid4(c.made), decision_id, decision_data,
                               rating, human_correction)
    IN  IF decision_data = None
        THEN [c EXCEPT !.last = [decision_id |-> decision_id, rating |-> rating,
                                 human_correction |-> human_correction,
                                 raised |-> "Decision not found",
                                 id |-> 0, feedback |-> c.feedback, index |-> c.index]]
        ELSE [c EXCEPT !.feedback = Append(@, feedback),
                       !.index = AddDocuments(@, <<VectorDocOf(feedback, decision_data)>>),
                       !.made = @ + 1,
                       !.last = [decision_id |-> decision_id, rating |-> rating,
                                 human_correction |-> human_correction,
                                 raised |-> NoneStr,
                                 id |-> feedback.id,
                                 feedback |-> c.feedback, index |-> c.index]]

\* FeedbackCollector.submit_feedback on the collector c; last records the
\* call, what it raised, the id of the feedback it returned, and the
\* feedback table and the index as they were when it was called.
SubmitFeedback(c, decision_id, rating, human_correction) ==
    LET decision_data == GetScopingDecision(c.decisions, decision_id)
    IN  IF decision_data # None /\ rating = "down" /\ ~Truthy(human_correction)
        THEN [c EXCEPT !.last = [decision_id |-> decision_id, rating |-> rating,
                                 human_correction |-> human_correction,
                                 raised |-> "Thumbs down feedback requires a correction",
                                 id |-> 0, feedback |-> c.feedback, index |-> c.index]]
        ELSE SubmitFeedbackUnchecked(c, decision_id, rating, human_correction)

\* FeedbackCollector(): the global db and a vector store of its own.
InitFeedback ==
    /\ IndexIdle /\ FunctionsIdle /\ RunIdle
    /\ BackendsIdle
    /\ scan = None
    /\ chunking = None
    /\ collector = [decisions |-> DecisionTable, feedback |-> <<>>,
                    index |-> <<>>, made |-> 0, last |-> None]

SubmitFeedbackAct ==
    /\ collector # None
    /\ collector.made < MaxSubmissions
    /\ \E decision_id \in SubmittedDecisionIds, rating \in Ratings,
          human_correction \in Corrections :
            collector' = SubmitFeedback(collector, decision_id, rating, human_correction)
    /\ UNCHANGED <<indexVars, backendVars, functionVars, runVars, scan, chunking>>

NextFeedback == SubmitFeedbackAct

SpecFeedback == InitFeedback /\ [][NextFeedback]_vars

\* The ids of the rows of the feedback table.
FeedbackIdsOf(rows) == {rows[i].id : i \in 1..Len(rows)}

\* The last submission had to be rejected, in the claim's words.
MustReject ==
    \/ collector.last.decision_id \notin DOMAIN collector.decisions
    \/ collector.last.rating = "down"
        /\ collector.last.human_correction \in {NoneStr, ""}

\* C19: a submission is rejected when its decision id does not resolve or
\* when it rates down and gives no correction, and then the feedback table
\* and the index are as they were; any other submission is accepted and adds
\* exactly one row to the table and exactly one entry to the index, both under
\* the one id it returns; and at all times the ids of the table are the ids
\* of the index.
C19_SubmissionKeepsStoreAndIndexInStep ==
    collector # None =>
        /\ FeedbackIdsOf(collector.feedback) = IdsOf(collector.index)
        /\ Len(collector.feedback) = Cardinality(FeedbackIdsOf(collector.feedback))
        /\ Len(collector.index) = Cardinality(IdsOf(collector.index))
        /\ collector.last # None =>
            /\ MustReject <=> collector.last.raised # NoneStr
            /\ collector.last.raised # NoneStr =>
                /\ collector.feedback = collector.last.feedback
                /\ collector.index = collector.last.index
            /\ collector.last.raised = NoneStr =>
                /\ Len(collector.feedback) = Len(collector.last.feedback) + 1
                /\ Len(collector.index) = Len(collector.last.index) + 1
                /\ collector.last.feedback = PySlice(collector.feedback, Len(collector.last.feedback))
                /\ collector.last.index = PySlice(collector.index, Len(collector.last.index))
                /\ collector.feedback[Len(collector.feedback)].id = collector.last.id
                /\ collector.index[Len(collector.index)].id = collector.last.id
                /\ collector.last.id \notin IdsOf(collector.last.index)

\* An accepted down rating with its correction, then a rejected one without,
\* on a collector that holds two feedback records.
C19_Witness ==
    /\ collector # None
    /\ collector.last # None
    /\ collector.last.raised = "Thumbs down feedback requires a correction"
    /\ Len(collector.feedback) = 2
    /\ collector.feedback[2].rating = "down"
    /\ collector.index[2].id = collector.feedback[2].id


(***************************************************************************)
(* SpecLoop: submissions to the collector, and after them one retrieval of *)
(* feedback for the query embedding of a stored decision, by               *)
(* retrieve_feedback_node or by FeedbackProcessor.                         *)
(***************************************************************************)
\* top_k of retrieve_similar_feedback when the caller passes none
ProcessorTopK == 10

\* db.get_all_feedback and db.list_feedback: the rows of the feedback table,
\* newest first, read on the day they were written.
GetAllFeedback(rows) ==
    Reversed([i \in 1..Len(rows) |->
                 [id |-> rows[i].id, commitment_id |-> rows[i].commitment_id,
                  agent_decision |-> rows[i].agent_decision, rating |-> rows[i].rating,
                  query_embedding |-> rows[i].query_embedding, days_old |-> 0]])

\* The index a FeedbackProcessor searches: the store it was given (here the
\* collector's) or, for FeedbackProcessor(), a store of its own made by
\* get_vector_store_from_config, which with the in-memory backend is new
\* and empty.
ProcessorStores == {"collector", "own"}

\* retrieve_feedback_node of a later run whose query embedding is the one
\* stored with the decision decision_id.
RetrieveFeedbackLaterAct ==
    \E decision_id \in DOMAIN DecisionTable :
        /\ collector # None
        /\ ranking = None
        /\ ranking' = [by |-> "pipeline", store |-> "db",
                       query |-> DecisionTable[decision_id].query_embedding,
                       rows |-> collector.feedback,
                       out |-> RankFeedback(DecisionTable[decision_id].query_embedding,
                                            GetAllFeedback(collector.feedback),
                                            FeedbackTopK, SimilarityThreshold)]
        /\ UNCHANGED <<indexVars, backendVars, scoring, runVars, serviceVars>>

\* feedback_processor.retrieve_similar_feedback(query_embedding) for the
\* query embedding stored with the decision decision_id.
RetrieveSimilarFeedbackLaterAct ==
    \E decision_id \in DOMAIN DecisionTable, store \in ProcessorStores :
        /\ collector # None
        /\ ranking = None
        /\ ranking' = [by |-> "processor", store |-> store,
                       query |-> DecisionTable[decision_id].query_embedding,
                       rows |-> collector.feedback,
                       out |-> RetrieveSimilarFeedback(
                                   IF store = "collector" THEN collector.index ELSE <<>>,
                                   GetAllFeedback(collector.feedback),
                                   DecisionTable[decision_id].query_embedding,
                                   NoneStr, ProcessorTopK, SimilarityThreshold)]
        /\ UNCHANGED <<indexVars, backendVars, scoring, runVars, serviceVars>>

NextLoop ==
    \/ SubmitFeedbackAct
    \/ RetrieveFeedbackLaterAct
    \/ RetrieveSimilarFeedbackLaterAct

SpecLoop == InitFeedback /\ [][NextLoop]_vars

\* C27: when the feedback table holds one record, submitted for a decision
\* D, a retrieval for the query embedding stored with D, by the pipeline's
\* stage or by the processor, does not fail and returns that record and no
\* other.
C27_FeedbackClosesLoop ==
    (/\ ranking # None
     /\ Len(ranking.rows) = 1
     /\ ranking.query = DecisionTable[ranking.rows[1].decision_id].query_embedding)
        => /\ ~ranking.out.raised
           /\ Len(ranking.out.top) = 1
           /\ ranking.out.top[1].feedback.id = ranking.rows[1].id

(***************************************************************************)
(* The index used by several runs at once.  InMemoryVectorStore holds no   *)
(* lock: search reads self.documents through a dict iterator, one entry a  *)
(* step, and add_documents, delete_by_id and delete_by_metadata of other   *)
(* runs take effect between two steps.  The iterator is CPython's: it      *)
(* walks the entries of the dict in insertion order, skips the entries of  *)
(* deleted keys, and raises RuntimeError when the dict's size is not the   *)
(* size it had when the iterator was made, or when it finds an entry after *)
(* having yielded as many as that size.  The dict is not resized while the *)
(* search runs (it gains at most MaxConcurrentWrites entries).             *)
(***************************************************************************)
\* Calls of other runs that take effect during one search.
MaxConcurrentWrites == 2

ScanVecs == {<<1, 0>>, <<4, 3>>}

ScanMeta == [type |-> "feedback", commitment_id |-> "c1"]

ScanQuery == <<1, 0>>

\* The entry of a deleted key.
Hole == ""

\* The entries of self.documents after a call that left it as docs: the
\* entries of the keys deleted are holes, the keys added are at the end.
EntriesAfter(entries, docs) ==
    LET kept == [i \in 1..Len(entries) |->
                    IF entries[i] \in IdsOf(docs) THEN entries[i] ELSE Hole]
        new == SelectSeq(docs, LAMBDA d : d.id \notin SeqToSet(entries))
    IN  kept \o [i \in 1..Len(new) |-> new[i].id]

\* The call of another run left the index as docs.
Written(docs) ==
    IF scan = None
    THEN scan' = scan
    ELSE scan' = [scan EXCEPT !.entries = EntriesAfter(@, docs),
                              !.writes = @ + 1,
                              !.seen = @ \cup {docs}]

CanWrite ==
    IF scan = None
    THEN TRUE
    ELSE scan.phase = "iterating" /\ scan.writes < MaxConcurrentWrites

ConcurrentAddAct ==
    /\ CanWrite
    /\ \E id \in DocIds, embedding \in ScanVecs :
        LET docs == AddDocuments(documents, <<[id |-> id, embedding |-> embedding,
                                               metadata |-> ScanMeta]>>)
        IN  /\ documents' = docs
            /\ Written(docs)
    /\ UNCHANGED <<insertLog, touchLog, lastSearch, lastFind, collector, chunking,
                   backendVars, functionVars, runVars>>

ConcurrentDeleteByIdAct ==
    /\ CanWrite
    /\ \E id \in DocIds :
        LET docs == DeleteById(documents, id)
        IN  /\ documents' = docs
            /\ Written(docs)
    /\ UNCHANGED <<insertLog, touchLog, lastSearch, lastFind, collector, chunking,
                   backendVars, functionVars, runVars>>

ConcurrentDeleteByMetadataAct ==
    /\ CanWrite
    /\ \E filter \in SearchFilters \ {NoFilter} :
        LET docs == DeleteByMetadata(documents, filter)
        IN  /\ documents' = docs
            /\ Written(docs)
    /\ UNCHANGED <<insertLog, touchLog, lastSearch, lastFind, collector, chunking,
                   backendVars, functionVars, runVars>>

\* search is called: "for doc in self.documents.values()" makes the iterator.
SearchBeginAct ==
    /\ scan = None
    /\ \E filter \in SearchFilters :
        scan' = [phase |-> "iterating", raised |-> NoneStr,
                 query |-> ScanQuery, top_k |-> MaxTopK, filter |-> filter,
                 threshold |-> NoThreshold,
                 size |-> Len(documents), left |-> Len(documents), pos |-> 0,
                 entries |-> [i \in 1..Len(documents) |-> documents[i].id],
                 candidates |-> <<>>, writes |-> 0, seen |-> {documents},
                 results |-> <<>>]
    /\ UNCHANGED <<indexVars, collector, chunking, backendVars, functionVars, runVars>>

\* The entries after position pos that hold a key.
LiveAfter(entries, pos) == {i \in (pos + 1)..Len(entries) : entries[i] # Hole}

Least(S) == CHOOSE i \in S : \A j \in S : i <= j

\* One step of the iterator and the body of the first loop; at the end of
\* the iteration, the rest of search, which reads candidates only.
SearchNextAct ==
    /\ scan # None
    /\ scan.phase = "iterating"
    /\ LET live == LiveAfter(scan.entries, scan.pos)
       IN  IF Len(documents) # scan.size
           THEN scan' = [scan EXCEPT !.phase = "raised",
                            !.raised = "dictionary changed size during iteration"]
           ELSE IF live = {}
           THEN scan' = [scan EXCEPT !.phase = "returned",
                            !.results = Search(scan.candidates, scan.query, scan.top_k,
                                               NoFilter, scan.threshold)]
           ELSE IF scan.left = 0
           THEN scan' = [scan EXCEPT !.phase = "raised",
                            !.raised = "dictionary keys changed during iteration"]
           ELSE LET i == Least(live)
                    doc == documents[IndexOfId(documents, scan.entries[i])]
                    skip == DOMAIN scan.filter # {}
                            /\ ~MatchesFilter(doc.metadata, scan.filter)
                IN  scan' = [scan EXCEPT !.pos = i, !.left = @ - 1,
                                !.candidates = IF skip THEN @ ELSE Append(@, doc)]
    /\ UNCHANGED <<indexVars, collector, chunking, backendVars, functionVars, runVars>>

InitConcurrent ==
    /\ IndexIdle /\ FunctionsIdle /\ RunIdle
    /\ BackendsIdle
    /\ ServicesIdle

NextConcurrent ==
    \/ ConcurrentAddAct
    \/ ConcurrentDeleteByIdAct
    \/ ConcurrentDeleteByMetadataAct
    \/ SearchBeginAct
    \/ SearchNextAct

SpecConcurrent == InitConcurrent /\ [][NextConcurrent]_vars

\* C20: a search that runs while other runs add to the index and delete
\* from it does not fail, and what it returns is what search returns on
\* the contents the index had at some point between its start and its end.
C20_SearchAmongConcurrentWrites ==
    scan # None =>
        /\ scan.phase # "raised"
        /\ scan.phase = "returned" =>
            \E docs \in scan.seen :
                scan.results = Search(docs, scan.query, scan.top_k,
                                      scan.filter, scan.threshold)

(***************************************************************************)
(* SpecInterchange: the same add and delete calls made on the three        *)
(* backends, then the same search on each.  collection.query of Chroma and *)
(* index.query of Pinecone return their matches nearest first; the order   *)
(* of two matches at the same distance is the library's and is one of the  *)
(* descending orders.                                                      *)
(***************************************************************************)
\* The metadata keys whose values are lists (isinstance(value, list)).
ListKeys == {"tags"}

\* json.dumps of a value that is not a str, int, float or bool.
JsonDumps(value) == <<"json", value>>

\* ChromaVectorStore._serialize_metadata and _build_where_clause: a simple
\* value is kept, any other value becomes its JSON string.
ChromaSerialize(metadata) ==
    [k \in DOMAIN metadata |->
        IF k \in ListKeys THEN JsonDumps(metadata[k]) ELSE metadata[k]]

\* What collection.query and collection.delete do with a where clause of
\* more than one key: the keys are taken together (and), or (later
\* releases) the clause is refused.
ChromaOnManyKeys == {"and", "raise"}

\* A where clause of Chroma: equality on every key.
ChromaMatches(metadata, filter) ==
    LET stored == ChromaSerialize(metadata)
        where == ChromaSerialize(filter)
    IN  \A k \in DOMAIN where : k \in DOMAIN stored /\ stored[k] = where[k]

\* PineconeVectorStore._build_filter: $eq for a simple value, $in for a
\* list; $in holds of a list-valued field when one of its elements is in
\* the list given.
PineconeMatches(metadata, filter) ==
    \A k \in DOMAIN filter :
        /\ k \in DOMAIN metadata
        /\ IF k \in ListKeys
           THEN \E i \in 1..Len(metadata[k]) : metadata[k][i] \in SeqToSet(filter[k])
           ELSE metadata[k] = filter[k]

\* The orders that put keys highest first.
DescOrders(keys) ==
    {p \in [1..Len(keys) -> 1..Len(keys)] :
        /\ \A i, j \in 1..Len(keys) : i # j => p[i] # p[j]
        /\ \A i, j \in 1..Len(keys) : i < j => keys[p[i]] >= keys[p[j]]}

\* The matches of a query, scored, in the order of the store.
Scored(docs, query) ==
    [i \in 1..Len(docs) |->
        [id |-> docs[i].id,
         score |-> CosineSimilarity(query, docs[i].embedding),
         metadata |-> docs[i].metadata]]

\* The loops of ChromaVectorStore.search and PineconeVectorStore.search over
\* the matches of the library's query, nearest first and at most top_k: the
\* threshold is applied to the matches returned.
AboveThreshold(matches, top_k, threshold) ==
    SelectSeq(PySlice(matches, top_k), LAMBDA r : ~BelowThreshold(r.score, threshold))

\* ChromaVectorStore.search: the results it can return.
ChromaSearch(docs, query, top_k, filter, threshold) ==
    LET hits == Scored(SelectSeq(docs, LAMBDA d :
                    DOMAIN filter = {} \/ ChromaMatches(d.metadata, filter)), query)
    IN  {AboveThreshold(Permute(hits, order), top_k, threshold) :
            order \in DescOrders(ScoresOf(hits))}

\* PineconeVectorStore.search: the results it can return.
PineconeSearch(docs, query, top_k, filter, threshold) ==
    LET hits == Scored(SelectSeq(docs, LAMBDA d :
                    DOMAIN filter = {} \/ PineconeMatches(d.metadata, filter)), query)
    IN  {AboveThreshold(Permute(hits, order), top_k, threshold) :
            order \in DescOrders(ScoresOf(hits))}

\* ChromaVectorStore.delete_by_metadata
ChromaDeleteByMetadata(docs, filter) ==
    SelectSeq(docs, LAMBDA d : ~ChromaMatches(d.metadata, filter))

\* PineconeVectorStore.delete_by_metadata
PineconeDeleteByMetadata(docs, filter) ==
    SelectSeq(docs, LAMBDA d : ~PineconeMatches(d.metadata, filter))

\* Two ids, each with one of two vectors and one of two lists of tags.
TaggedDocs ==
    {[id |-> id, embedding |-> embedding,
      metadata |-> [type |-> "feedback", tags |-> tags]] :
        id \in {"d1", "d2"}, embedding \in {<<1, 0>>, <<4, 3>>},
        tags \in {<<"a">>, <<"a", "b">>}}

TaggedFilters ==
    {NoFilter, [type |-> "feedback"], [tags |-> <<"a", "b">>],
     [type |-> "feedback", tags |-> <<"a", "b">>]}

\* add_documents([doc]) on each backend.
AddEverywhereAct ==
    /\ ~lastSearch.searched
    /\ \E doc \in TaggedDocs, onDuplicate \in ChromaOnDuplicate :
        stores' = [in_memory |-> InMemoryAddDocuments(stores.in_memory, <<doc>>).docs,
                   chroma |-> ChromaAddDocuments(stores.chroma, <<doc>>, onDuplicate).docs,
                   pinecone |-> PineconeAddDocuments(stores.pinecone, <<doc>>).docs]
    /\ UNCHANGED <<indexVars, lastAdd, functionVars, runVars, serviceVars>>

\* delete_by_id(id) on each backend.
DeleteByIdEverywhereAct ==
    /\ ~lastSearch.searched
    /\ \E id \in {"d1", "d2"} :
        /\ id \in IdsOf(stores.in_memory)
        /\ stores' = [b \in BackendNames |-> DeleteById(stores[b], id)]
    /\ UNCHANGED <<indexVars, lastAdd, functionVars, runVars, serviceVars>>

\* delete_by_metadata(filter) on each backend, with a filter of one key.
DeleteByMetadataEverywhereAct ==
    /\ ~lastSearch.searched
    /\ stores.in_memory # <<>>
    /\ \E filter \in {f \in TaggedFilters : Cardinality(DOMAIN f) = 1} :
        stores' = [in_memory |-> DeleteByMetadata(stores.in_memory, filter),
                   chroma |-> ChromaDeleteByMetadata(stores.chroma, filter),
                   pinecone |-> PineconeDeleteByMetadata(stores.pinecone, filter)]
    /\ UNCHANGED <<indexVars, lastAdd, functionVars, runVars, serviceVars>>

\* search(query, top_k, filter, threshold) on each backend; ids holds the
\* ids each returned, in order, and raised the backends whose call raised.
SearchEverywhereAct ==
    /\ ~lastSearch.searched
    /\ \E query \in {<<1, 0>>}, top_k \in 1..MaxTopK, filter \in TaggedFilters,
          threshold \in {NoThreshold, Threshold((7 * One) \div 10)},
          onManyKeys \in ChromaOnManyKeys :
        \E chroma \in ChromaSearch(stores.chroma, query, top_k, filter, threshold),
           pinecone \in PineconeSearch(stores.pinecone, query, top_k, filter, threshold) :
            LET refused == onManyKeys = "raise" /\ Cardinality(DOMAIN filter) > 1
                found == [in_memory |-> Search(stores.in_memory, query, top_k,
                                               filter, threshold),
                          chroma |-> IF refused THEN <<>> ELSE chroma,
                          pinecone |-> pinecone]
            IN  lastSearch' = [searched |-> TRUE, everywhere |-> TRUE,
                               query |-> query, top_k |-> top_k, filter |-> filter,
                               threshold |-> threshold,
                               raised |-> IF refused THEN {"chroma"} ELSE {},
                               ids |-> [b \in BackendNames |->
                                           [i \in 1..Len(found[b]) |-> found[b][i].id]]]
    /\ UNCHANGED <<documents, insertLog, touchLog, lastFind, backendVars,
                   functionVars, runVars, serviceVars>>

NextInterchange ==
    \/ AddEverywhereAct
    \/ DeleteByIdEverywhereAct
    \/ DeleteByMetadataEverywhereAct
    \/ SearchEverywhereAct

SpecInterchange == InitBackends /\ [][NextInterchange]_vars

\* C21: after the same adds and deletes, the same search returns on each of
\* the three backends the same ids in the same order, and raises on none.
C21_BackendsInterchangeable ==
    lastSearch.searched =>
        /\ lastSearch.raised = {}
        /\ lastSearch.ids.chroma = lastSearch.ids.in_memory
        /\ lastSearch.ids.pinecone = lastSearch.ids.in_memory

(***************************************************************************)
(* Properties of the pipeline.                                             *)
(***************************************************************************)
\* The seven stages that the pipeline is said to run, as the graph names them.
ClaimedStages ==
    <<"parse_asset", "retrieve_rag", "retrieve_feedback", "assess_confidence",
      "build_prompt", "llm_call", "save_decision">>

\* The stages among the nodes of a trace, in the order of the trace.
StagesOf(t) == SelectSeq(t, LAMBDA node : node \in SeqToSet(ClaimedStages))

\* A run of the graph is under way: graph.invoke was called and has not returned.
InGraph == pc \in SeqToSet(NodeOrder)

StageFailed ==
    /\ entry # None
    /\ pc \notin {"ready", "raised"}
    /\ Len(state.errors) > Len(entry.errors)

WrittenEarly == {"commitment", "commitment_name", "related_commitments", "query_embedding"}

C3_RunNeverRaises == pc # "raised"

\* C4: a run in which the asset identifier parsed, the policy resolved and
\* the model returned a well-formed verdict, with every service up and every
\* stored feedback embedding of the dimension of the query's, ends with a
\* response, a persisted decision and no error.
C4_HappyPath ==
    (/\ pc = "END"
     /\ state.asset # None
     /\ state.commitment # None
     /\ env.down = "none"
     /\ env.llm = "in-scope"
     /\ \A i \in 1..Len(env.all_feedback) :
            Len(env.all_feedback[i].query_embedding) = Len(env.embedding))
        => /\ state.response # None
           /\ state.decision # None
           /\ state.decision \in SeqToSet(env.decisions)
           /\ state.errors = <<>>


\* The retrieve-policy-evidence stage went through: it is the only one that
\* writes a RAGContext.
Retrieved == state # None /\ pc \notin {"ready", "raised"} /\ state.rag_context # None

\* The policies the stage searched: the primary one and the related ones.
SearchedPolicies ==
    {state.commitment.id} \cup
        {state.related_commitments[i].id : i \in 1..Len(state.related_commitments)}

\* The document of the index under an id the index holds
IndexDoc(id) == CHOOSE d \in SeqToSet(env.index) : d.id = id

\* The similarity of the kept chunks to the query, in the order kept
KeptScores ==
    [i \in 1..Len(state.rag_chunks) |->
        CosineSimilarity(state.query_embedding, IndexDoc(state.rag_chunks[i]).embedding)]

\* C13: after a successful retrieve-policy-evidence stage the chunk list
\* holds at most 10 chunks, all of them chunks of the searched policies,
\* in non-increasing order of similarity, and the summary agrees with it:
\* chunksRetrieved is its length, the chunk ids are listed in its order,
\* avgSimilarity is the mean (to the unit of the scores) and topSimilarity
\* the maximum of its scores, both 0 when it is empty.
C13_ChunksAndStats ==
    Retrieved =>
        LET n == Len(state.rag_chunks)
            rag_context == state.rag_context
        IN  /\ n <= 10
            /\ \A i \in 1..n :
                   /\ IndexDoc(state.rag_chunks[i]).metadata.type = "commitment_chunk"
                   /\ IndexDoc(state.rag_chunks[i]).metadata.commitment_id \in SearchedPolicies
            /\ NonIncreasing(KeptScores)
            /\ rag_context.chunks_retrieved = n
            /\ rag_context.chunk_ids = state.rag_chunks
            /\ IF n = 0
               THEN rag_context.avg_similarity = 0 /\ rag_context.top_similarity = 0
               ELSE /\ n * rag_context.avg_similarity <= SumSeq(KeptScores)
                    /\ SumSeq(KeptScores) < n * (rag_context.avg_similarity + 1)
                    /\ \E i \in 1..n : rag_context.top_similarity = KeptScores[i]
                    /\ \A i \in 1..n : rag_context.top_similarity >= KeptScores[i]

\* Twelve chunks found in three policies, ten of them kept.
C13_Witness ==
    /\ Retrieved
    /\ Len(state.related_commitments) = 2
    /\ Len(state.rag_chunks) = 10
    /\ KeptScores[1] > KeptScores[10]
    /\ Len(ChunksOfAll(env, state.query_embedding,
                       <<state.commitment>> \o state.related_commitments)) = 12


\* Discovery mode resolved its policies: the request names no policy, gives
\* a query, and the stage has set the primary policy.
Discovered ==
    /\ state # None /\ pc \notin {"ready", "raised"}
    /\ ~Truthy(state.commitment_id) /\ Truthy(state.commitment_query)
    /\ state.commitment # None

\* The primary policy and the related ones, in their order
Searched == <<state.commitment>> \o state.related_commitments

\* The policies that have a summary in the index
Summarised ==
    {c \in env.commitments :
        \E i \in 1..Len(env.index) :
            /\ env.index[i].metadata.type = "commitment_summary"
            /\ env.index[i].metadata.commitment_id = c.id}

\* The place of a policy's summary in the index
SummaryPlace(c) ==
    CHOOSE i \in 1..Len(env.index) :
        /\ env.index[i].metadata.type = "commitment_summary"
        /\ env.index[i].metadata.commitment_id = c.id

\* The similarity of a policy's summary to the query
SummarySimilarity(c) == CosineSimilarity(env.embedding, env.index[SummaryPlace(c)].embedding)

\* q ranks above p: it is more similar to the query, or as similar and
\* entered the index earlier.
RanksAbove(q, p) ==
    \/ SummarySimilarity(q) > SummarySimilarity(p)
    \/ SummarySimilarity(q) = SummarySimilarity(p) /\ SummaryPlace(q) < SummaryPlace(p)

\* The number of policies that rank above p
Outranking(p) == Cardinality({q \in Summarised \ {p} : RanksAbove(q, p)})

\* What C14 says of the policies searched, whatever it says of those left out
SearchedAreTheBest ==
    /\ Len(Searched) <= 3
    /\ \A i \in 1..Len(Searched) :
           /\ Searched[i] \in Summarised
           /\ 10 * SummarySimilarity(Searched[i]) >= 6 * One
    /\ \A i, j \in 1..Len(Searched) : i < j => RanksAbove(Searched[i], Searched[j])

\* C14 as stated: in discovery mode at most 3 policies are searched, each
\* matched the query with similarity >= 0.6, the highest-ranked is the
\* primary one and the others follow in descending rank; a policy is left
\* out only if fewer than 3 others rank above it or its similarity is below
\* 0.6.
C14_LeftOutOnlyIfFewerThan3Above ==
    Discovered =>
        /\ SearchedAreTheBest
        /\ \A p \in Summarised \ SeqToSet(Searched) :
               Outranking(p) < 3 \/ 10 * SummarySimilarity(p) < 6 * One

\* C14 (amended): in discovery mode at most 3 policies are searched, each
\* matched the query with similarity >= 0.6, the highest-ranked is the
\* primary one and the others follow in descending rank; a policy is left
\* out only if at least 3 others rank above it or its similarity is below
\* 0.6.
C14_DiscoveryTop3 ==
    Discovered =>
        /\ SearchedAreTheBest
        /\ \A p \in Summarised \ SeqToSet(Searched) :
               Outranking(p) >= 3 \/ 10 * SummarySimilarity(p) < 6 * One

\* Three policies searched, a fourth left out at similarity 0.6 and a fifth
\* left out below it.
C14_Witness ==
    /\ Discovered
    /\ Len(Searched) = 3
    /\ \E p \in Summarised \ SeqToSet(Searched) :
           Outranking(p) = 3 /\ 10 * SummarySimilarity(p) = 6 * One
    /\ \E p \in Summarised \ SeqToSet(Searched) : SummarySimilarity(p) = 0


\* The request names a policy that the database, which answers, holds
\* neither as an id nor as a name; or it gives a query that no summary of
\* the index, which answers, matches at 0.6.
Unresolvable ==
    \/ /\ Truthy(state.commitment_id)
       /\ env.down # "db"
       /\ \A c \in env.commitments :
              c.id # state.commitment_id /\ c.name # state.commitment_id
    \/ /\ ~Truthy(state.commitment_id) /\ Truthy(state.commitment_query)
       /\ env.down \notin {"embedding", "vector_store"}
       /\ \A c \in Summarised : 10 * SummarySimilarity(c) < 6 * One

\* The retrieval stage has run on such a request.
NotFound ==
    /\ state # None /\ pc \notin {"ready", "raised"}
    /\ Len(trace) >= 2
    /\ Unresolvable

PolicyNotFoundMessages == {"Commitment not found", "No commitments found matching"}

\* C15: when a direct-mode reference resolves neither as an id nor as a
\* name, or discovery mode finds no candidate policy, the retrieval stage
\* records a policy-not-found error and retrieves no chunks, the run goes on
\* through every remaining stage to the end, and the score-confidence stage
\* yields level insufficient.
C15_PolicyNotFound ==
    /\ [](NotFound =>
             /\ Len(state.errors) >= (IF state.asset = None THEN 2 ELSE 1)
             /\ state.errors[IF state.asset = None THEN 2 ELSE 1] \in PolicyNotFoundMessages
             /\ Cardinality({i \in 1..Len(state.errors) :
                                state.errors[i] \in PolicyNotFoundMessages}) = 1
             /\ state.commitment = None
             /\ state.rag_chunks = <<>> /\ state.rag_context = None
             /\ trace = SubSeq(NodeOrder, 1, Len(trace))
             /\ (pc = "END" => trace = NodeOrder)
             /\ (pc # "END" => pc = NodeOrder[Len(trace) + 1])
             /\ (Len(trace) >= 6 =>
                    state.confidence # None /\ state.confidence.level = "insufficient"))
    /\ (NotFound ~> (pc = "END" /\ trace = NodeOrder))

\* A run that ended after a direct-mode reference did not resolve, in a
\* world with stored feedback.
C15_Witness ==
    /\ NotFound /\ pc = "END"
    /\ Truthy(state.commitment_id)
    /\ state.asset # None
    /\ env.all_feedback # <<>>
    /\ state.confidence # None /\ state.confidence.level = "insufficient"
    /\ state.confidence.score = 0


\* C16: parsing an asset identifier succeeds exactly when it starts with
\* the scheme prefix and the rest is exactly three dot-separated segments,
\* and then type, descriptor and domain are those segments; any other
\* identifier is a parse error: the parse stage leaves the asset unset, puts
\* no default in its place and records one error.
C16_ParseExactlyWellFormed ==
    (state # None /\ pc \notin {"ready", "raised"} /\ Len(trace) >= 1) =>
        LET uri == state.asset_uri
            prefixed == Len(uri) >= 1 /\ uri[1] = Scheme
            segments == IF prefixed THEN SplitDots(Tail(uri)) ELSE <<>>
        IN  IF prefixed /\ Len(segments) = 3
            THEN /\ state.asset # None
                 /\ state.asset.asset_type = segments[1]
                 /\ state.asset.asset_descriptor = segments[2]
                 /\ state.asset.asset_domain = segments[3]
                 /\ \A i \in 1..Len(state.errors) : state.errors[i] # "Asset parsing error"
            ELSE /\ state.asset = None
                 /\ Len(state.errors) >= 1 /\ state.errors[1] = "Asset parsing error"
                 /\ \A i \in 2..Len(state.errors) : state.errors[i] # "Asset parsing error"


\* The checkpoints that the call numbered run saved, among those given
SavedBy(run, snapshots) == SelectSeq(snapshots, LAMBDA c : c.run = run)

\* C17: after a run under run identifier r completes, the state history of
\* r holds one checkpoint for every completed stage, ordered oldest to
\* newest, and the current state of r is the terminal RunState (the newest
\* checkpoint); for an identifier never used the current state is nothing;
\* neither read changes the checkpoint store.
C17_CheckpointReads ==
    (lastRead # None /\ pc = "END") =>
        LET r == lastRead.thread_id
            run == Len(checkpoints.requests)
        IN  /\ checkpoints.saved = lastRead.store
            /\ (lastRead.op = "get_checkpoint_history" /\ r = checkpoints.thread_id) =>
                   /\ Len(SavedBy(run, lastRead.result)) >= Len(trace)
                   /\ lastRead.result = SavedUnder(checkpoints.saved, r)
                   /\ lastRead.result[Len(lastRead.result)].values = state
            /\ (lastRead.op = "get_current_state" /\ r = checkpoints.thread_id) =>
                   lastRead.result.state = state
            /\ (lastRead.op = "get_current_state" /\ r \notin DOMAIN checkpoints.saved) =>
                   lastRead.result.state = None


\* Two calls are related when the caller gave both the same identifier.
Related(i, j) ==
    /\ checkpoints.requests[i].given # NoneStr
    /\ checkpoints.requests[i].given = checkpoints.requests[j].given

\* The state a call started from: the values of the second checkpoint it
\* saved, in which its input is applied
StartedFrom(j) ==
    SavedBy(j, checkpoints.saved[checkpoints.requests[j].thread])[2].values

\* C18: a RunState is never reused across unrelated requests: two requests
\* that their caller did not give the same run identifier (two requests
\* without session id and thread id among them) store their checkpoints
\* under distinct run identifiers, so that no history holds states of both
\* and the later one does not start from the state of the earlier one.
C18_NoReuseAcrossRequests ==
    (state # None /\ pc # "raised") =>
        \A i, j \in 1..Len(checkpoints.requests) :
            (i < j /\ ~Related(i, j)) =>
                /\ checkpoints.requests[i].thread # checkpoints.requests[j].thread
                /\ \A t \in DOMAIN checkpoints.saved :
                       SavedBy(i, checkpoints.saved[t]) = <<>>
                           \/ SavedBy(j, checkpoints.saved[t]) = <<>>
                /\ \A f \in Carried : StartedFrom(j)[f] = None


\* The node that has just returned.
LastNode == trace[Len(trace)]

\* A node has just returned, entered with the state entry.
Returned == entry # None /\ pc \notin {"ready", "raised"} /\ trace # <<>>

\* What the node that has just returned expected of the earlier stages was
\* never populated when it was entered.
InputMissing ==
    CASE LastNode = "retrieve_decisions" -> entry.query_embedding = <<>>
      [] LastNode = "retrieve_feedback" -> entry.query_embedding = <<>>
      [] LastNode = "assess_confidence" ->
            /\ entry.rag_context = None
            /\ entry.rag_chunks = <<>>
            /\ entry.similar_feedback = <<>>
      [] LastNode = "build_prompt" ->
            /\ entry.asset = None
            /\ entry.commitment = None
            /\ entry.rag_chunks = <<>>
            /\ entry.similar_feedback = <<>>
            /\ entry.similar_decisions = <<>>
      [] LastNode = "llm_call" -> "prompts" \notin DOMAIN entry.telemetry_data
      [] LastNode = "save_decision" -> entry.response = None
      [] OTHER -> FALSE

\* A failure of the model stage appended one message to the errors and
\* handed the state to the stage after it.
ModelFailureOnlyAppends ==
    (Returned /\ LastNode = "llm_call" /\ StageFailed) =>
        /\ pc = "save_decision"
        /\ state = [entry EXCEPT
               !.errors = Append(entry.errors, state.errors[Len(state.errors)]),
               !.telemetry_data = state.telemetry_data]

\* C22 as stated: with every service up, of the stages that run after
\* retrieval only the model stage records an error because what it expected of
\* an earlier stage was never populated; and a failure of the model stage
\* only appends to the errors, the later stage running all the same.
C22_OnlyModelStageNeedsInputs ==
    /\ (Returned /\ env.down = "none" /\ InputMissing /\ StageFailed)
            => LastNode = "llm_call"
    /\ ModelFailureOnlyAppends

\* C22, amended: entered without what it expects of the earlier stages, the
\* model stage fails, and so do retrieve-decisions (no query embedding),
\* persist-decision (no response) and retrieve-feedback when a stored
\* feedback record carries an embedding (no query embedding to compare it
\* with); score-confidence and build-prompt record no error, nor does
\* retrieve-feedback when no stored record carries an embedding; and a
\* failure of the model stage only appends to the errors, the later stage
\* running all the same.
C22_StagesAndMissingInputs ==
    /\ (Returned /\ env.down = "none" /\ InputMissing) =>
          (StageFailed <=>
              \/ LastNode \in {"llm_call", "retrieve_decisions", "save_decision"}
              \/ /\ LastNode = "retrieve_feedback"
                 /\ \E i \in 1..Len(env.all_feedback) :
                        env.all_feedback[i].query_embedding # <<>>)
    /\ ModelFailureOnlyAppends

\* The prompt was not built (the feedback retrieved broke build-prompt), the
\* model stage failed for want of it, and persist-decision ran and failed for
\* want of a response.
C22_Witness ==
    /\ pc = "END"
    /\ env.down = "none"
    /\ InputMissing
    /\ StageFailed
    /\ LastNode = "save_decision"
    /\ "prompts" \notin DOMAIN state.telemetry_data
    /\ "llm_call" \in DOMAIN state.telemetry_data

\* C23: persist-decision writes a decision only if the model stage produced
\* a response in the same run (the decision carries the telemetry of that
\* run's model call), and the decision then has the verdict and the
\* confidence level of that response; entered without a response it writes
\* nothing, leaves the decision unset and records an error.
C23_PersistsOwnResponse ==
    /\ \A i \in 1..Len(env.decisions) :
          /\ env.decisions[i].llm_call \notin {NoneStr, "error"}
          /\ env.decisions[i].decision = env.decisions[i].llm_call
    /\ (Returned /\ LastNode = "save_decision") =>
          /\ state.telemetry_data["save_decision"] = "ok" =>
                /\ "llm_call" \in DOMAIN entry.telemetry_data
                /\ entry.telemetry_data["llm_call"] # "error"
                /\ state.decision = env.decisions[Len(env.decisions)]
                /\ state.decision.decision = state.response.decision
                /\ state.decision.confidence_level = state.response.confidence_level
          /\ entry.response = None =>
                /\ state.decision = None
                /\ StageFailed
                /\ state.telemetry_data["save_decision"] = "error"
                /\ Len(env.decisions) < Len(checkpoints.requests)

\* The node that appends the message: the except clause, or the early
\* return, that the message comes from.
NodeOfMessage(message) ==
    CASE message = "Asset parsing error" -> "parse_asset"
      [] message \in {"Commitment not found", "No commitments found matching",
                      "Must provide either commitment_id or commitment_query",
                      "RAG retrieval error"} -> "retrieve_rag"
      [] message = "Decision retrieval error" -> "retrieve_decisions"
      [] message = "Feedback retrieval error" -> "retrieve_feedback"
      [] message = "Tool research error" -> "tool_research"
      [] message = "Confidence assessment error" -> "assess_confidence"
      [] message = "Prompt building error" -> "build_prompt"
      [] message \in {"LLM call error", "LLM response is not valid JSON"} -> "llm_call"
      [] message = "Save decision error" -> "save_decision"

\* The place of a node in the order of the graph.
PlaceOf(node) == CHOOSE p \in 1..Len(NodeOrder) : NodeOrder[p] = node

\* C28: within a run the error list only grows: a stage returns the list it
\* was given, with at most one message of its own appended; so in every
\* state of the run, the terminal one included, the errors are in the order
\* of the stages that recorded them, no stage has two, and there are at most
\* as many as there are stages.
C28_ErrorsOnlyGrow ==
    /\ Returned =>
           /\ Len(state.errors) <= Len(entry.errors) + 1
           /\ entry.errors = PySlice(state.errors, Len(entry.errors))
           /\ StageFailed => NodeOfMessage(state.errors[Len(state.errors)]) = LastNode
    /\ (state # None /\ pc \notin {"ready", "raised"}) =>
           /\ \A i, j \in 1..Len(state.errors) :
                  i < j => PlaceOf(NodeOfMessage(state.errors[i]))
                               < PlaceOf(NodeOfMessage(state.errors[j]))
           /\ Len(state.errors) <= Len(ClaimedStages)

\* A run ended with the errors of several stages: the first of the asset
\* parser, the last of the stage that saves.
C28_Witness ==
    /\ pc = "END"
    /\ Len(state.errors) >= 4
    /\ state.errors[1] = "Asset parsing error"
    /\ state.errors[Len(state.errors)] = "Save decision error"

(***************************************************************************)
(* SpecChunk: RAGService.chunk_text, one iteration of its loop a step, on  *)
(* every text of up to MaxTextLen characters and for chunk sizes and       *)
(* overlaps as the settings can hold them (both are plain integers), the   *)
(* default overlap of 50 with a chunk size of 50 among them.  A text is    *)
(* the sequence of its character positions, so that a segment tells where  *)
(* it was cut.                                                             *)
(***************************************************************************)
MaxTextLen == 130

\* if len(chunk) > 50
TinyChunk == 50

ChunkSettings ==
    {c \in [chunk_size : {50, 60, 100}, chunk_overlap : {0, 20, 50}] :
        c.chunk_overlap <= c.chunk_size}

\* text[start:end] for 0 <= start <= end
Slice(text, start, end) == SubSeq(text, start + 1, Min(end, Len(text)))

InitChunk ==
    /\ IndexIdle /\ BackendsIdle /\ FunctionsIdle /\ RunIdle
    /\ collector = None
    /\ scan = None
    /\ \E n \in 0..MaxTextLen, c \in ChunkSettings :
           chunking = [text |-> [i \in 1..n |-> i],
                       chunk_size |-> c.chunk_size, chunk_overlap |-> c.chunk_overlap,
                       start |-> 0, chunks |-> <<>>, pc |-> "while"]

\* One iteration of "while start < len(text)"
ChunkTextLoopAct ==
    /\ chunking.pc = "while"
    /\ chunking.start < Len(chunking.text)
    /\ LET end == chunking.start + chunking.chunk_size
           chunk == Slice(chunking.text, chunking.start, end)
       IN  chunking' = [chunking EXCEPT
               !.chunks = IF Len(chunk) > TinyChunk THEN Append(@, chunk) ELSE @,
               !.start = @ + (chunking.chunk_size - chunking.chunk_overlap)]
    /\ UNCHANGED <<indexVars, backendVars, functionVars, runVars, collector, scan>>

\* The loop's test fails: return chunks
ChunkTextReturnAct ==
    /\ chunking.pc = "while"
    /\ ~(chunking.start < Len(chunking.text))
    /\ chunking' = [chunking EXCEPT !.pc = "returned"]
    /\ UNCHANGED <<indexVars, backendVars, functionVars, runVars, collector, scan>>

NextChunk ==
    \/ ChunkTextLoopAct
    \/ ChunkTextReturnAct

SpecChunk == InitChunk /\ [][NextChunk]_vars

\* The call runs in one thread that nothing suspends.
SpecChunkLive == SpecChunk /\ WF_vars(NextChunk)

\* What chunk_text returned is the sliding windows of the text from its
\* start, in order, each longer than 50 characters and none longer than the
\* chunk size.
SlidingWindows ==
    \A k \in 1..Len(chunking.chunks) :
        LET from == (k - 1) * (chunking.chunk_size - chunking.chunk_overlap)
        IN  /\ chunking.chunks[k] = Slice(chunking.text, from, from + chunking.chunk_size)
            /\ Len(chunking.chunks[k]) > TinyChunk
            /\ Len(chunking.chunks[k]) <= chunking.chunk_size

\* C30: chunk_text returns for every text and every chunk size and overlap
\* of the settings, and what it returns is the sliding windows of the text in
\* order, each longer than 50 characters and no longer than the chunk size.
C30_ChunkTextTerminates ==
    /\ <>(chunking.pc = "returned")
    /\ [](chunking.pc = "returned" => SlidingWindows)

(***************************************************************************)
(* Properties of the similarity index (checked under SpecIndex).           *)
(***************************************************************************)
PosIn(log, id) == CHOOSE i \in 1..Len(log) : log[i] = id

\* C5: on a non-empty candidate set, search(q, topK = k) returns at most k
\* results whose scores are non-increasing from first to last, and so does
\* find_most_similar (k ranges over the result counts 0..MaxTopK).
C5_TopKSorted ==
    /\ (lastSearch.searched /\ documents # <<>>) =>
           /\ Len(lastSearch.results) <= lastSearch.top_k
           /\ NonIncreasing(ScoresOf(lastSearch.results))
    /\ (lastFind.found /\ lastFind.candidates # <<>>) =>
           /\ Len(lastFind.results) <= lastFind.top_k
           /\ NonIncreasing(ScoresOf(lastFind.results))

\* C5 happens: a search and a find_most_similar over three candidates, each
\* cut to top_k = 2 results of different scores.
C5_Witness ==
    /\ lastSearch.searched
    /\ lastFind.found
    /\ Len(documents) = 3
    /\ lastSearch.top_k = 2
    /\ Len(lastSearch.results) = 2
    /\ lastSearch.results[1].score > lastSearch.results[2].score
    /\ Len(lastFind.results) = 2
    /\ lastFind.results[1].score > lastFind.results[2].score

\* C6: two results of equal score come in the order in which their documents
\* entered the index (an id that is added again while it is held keeps its
\* place; one that was deleted and added again enters anew), whatever the
\* ids are.
C6_TiesByInsertion ==
    lastSearch.searched =>
        \A i, j \in 1..Len(lastSearch.results) :
            (i < j /\ lastSearch.results[i].score = lastSearch.results[j].score)
                => PosIn(insertLog, lastSearch.results[i].id)
                       < PosIn(insertLog, lastSearch.results[j].id)

\* C6 happens: "d3" entered before "d1", was added again after it, and the
\* two tie in a search, which returns "d3" first.
C6_Witness ==
    /\ lastSearch.searched
    /\ Len(lastSearch.results) >= 2
    /\ lastSearch.results[1].id = "d3"
    /\ lastSearch.results[2].id = "d1"
    /\ lastSearch.results[1].score = lastSearch.results[2].score
    /\ PosIn(touchLog, "d1") < PosIn(touchLog, "d3")

\* The results of the last search that a given threshold lets through, were
\* it applied to every candidate.
AtOrAbove(results, threshold) == \A i \in 1..Len(results) : results[i].score >= threshold.v

\* C7: whenever a scoreThreshold is given, 0 and negative values included, no
\* result has a score below it, and topK cuts what remains after the filter.
C7_ThresholdExcludes ==
    (lastSearch.searched /\ lastSearch.threshold.given) =>
        /\ AtOrAbove(lastSearch.results, lastSearch.threshold)
        /\ LET kept == SelectSeq(
                   Search(documents, lastSearch.query, Len(documents),
                          lastSearch.filter, NoThreshold),
                   LAMBDA r : r.score >= lastSearch.threshold.v)
           IN  lastSearch.results = PySlice(kept, lastSearch.top_k)

\* C7's case: a search with threshold 0.0 over an index holding a document of
\* negative similarity to the query.
C7_Witness ==
    /\ lastSearch.searched
    /\ lastSearch.threshold = Threshold(0)
    /\ lastSearch.top_k = MaxTopK
    /\ \E i \in 1..Len(documents) :
           CosineSimilarity(lastSearch.query, documents[i].embedding) < 0

====
